---------------------------- MODULE Spec2Model ----------------------------
(***************************************************************************)
(* A model of sap.ui.table.TableUtils (src/sap.ui.table/.../TableUtils.js).*)
(* The table, its columns, its selection, its scroll cursor, its resize    *)
(* handler registry and its context menus are the state; every utility     *)
(* function that changes state is one action.  Indices are 0-based as in   *)
(* the JavaScript source; sequences are 1-based, so column i is cols[i+1]. *)
(***************************************************************************)
EXTENDS Integers, Sequences, FiniteSets, TLC

\* ------------------------------------------------------------------ bounds
MaxCols == 3
MaxSelRows == 2
MaxSelVisible == 2
MaxScrollRows == 10
MaxScrollVisible == 5
MaxHandles == 3
MaxMenuCols == 2
MaxMenuVisible == 1
MaxCellMenuVisible == 2

\* JavaScript null / undefined for an optional argument: <<>>, a value v: <<v>>.
Null == <<>>
Some(v) == <<v>>
IsNull(o) == o = Null
Val(o) == o[1]

Abs(x) == IF x < 0 THEN -x ELSE x
Max(a, b) == IF a > b THEN a ELSE b
Min(a, b) == IF a < b THEN a ELSE b

VARIABLES
    \* columns aggregation: sequence of
    \*   [visible, resizable, flex, px, minWidth]
    \* flex: the width is "", "auto" or a percentage; px: the pixel value of a
    \* fixed width, or the rendered offsetWidth of a flexible column;
    \* minWidth: Column._minWidth (0: not set).
    columns,
    fixedColumnCount,   \* Table.getFixedColumnCount()
    rendered,           \* Table.getDomRef() != null
    selectionMode,      \* Table.getSelectionMode(): "None", "Single", "MultiToggle"
    selectionBehavior,  \* Table.getSelectionBehavior(): "Row", "RowOnly", "RowSelector"
    groupMode,          \* TableGrouping.isGroupMode(oTable)
    hasBinding,         \* Table.getBinding("rows") != null
    rowCount,           \* Table._getRowCount()
    selectedIndices,    \* Table.getSelectedIndices(), as a set
    iSourceRowIndex,    \* Table._iSourceRowIndex (Null: the property is absent)
    firstVisibleRow,    \* Table.getFirstVisibleRow()
    visibleRowCount,    \* Table.getVisibleRowCount()
    fixedRowCount,      \* Table.getFixedRowCount()
    fixedBottomRowCount, \* Table.getFixedBottomRowCount()
    mResizeHandlerIds,  \* Table._mResizeHandlerIds: Null, or key -> handle (0: undefined)
    liveHandles,        \* the handles registered at the ResizeHandler
    registered,         \* registered[h]: the key handle h was registered for
    desktop,            \* Device.system.desktop
    enableCellFilter,   \* Table.getEnableCellFilter()
    \* per column: [hasItems, filterable, open, overlay, dropDown, resizer,
    \* cellHidden, cellMenus, focusout]
    \* hasItems: Column._menuHasItems(); filterable: Column.isFilterableByMenu();
    \* open: the column's menu is open; overlay: the header holds a
    \* .sapUiTableColCellMenu element, with a .sapUiTableColDropDown (dropDown)
    \* and a .sapUiTableColResizer (resizer) button; cellHidden: the header's
    \* .sapUiTableColCell is hidden; cellMenus: the number of
    \* .sapUiTableColCellMenu elements in the header; focusout: a focusout
    \* handler of applyColumnHeaderCellMenu is bound to the header.
    colMenus,
    \* Table._oCellContextMenu: [exists, created, bOpen, opener, target]
    \* created: the number of menu instances constructed; opener: the cell
    \* <<row, column>> the menu is open at; target: the column and absolute
    \* row index the filter item is bound to.
    cellMenu,
    groupRows,          \* the rendered rows that are group header rows
    showNoData,         \* Table.getShowNoData()
    \* the rows binding's providesGrandTotal() and hasTotaledMeasures() when it
    \* is an analytical binding, Null when the binding has no providesGrandTotal
    analytical,
    \* the density classes of the table: [style, dom], its style classes and
    \* the classes of its DOM element when it is rendered
    tableClasses,
    \* the chain of getParent() above the table, the table's parent first:
    \* [hasStyleClass, styleClasses, domAccessor, domRef, hasGetParent]
    parents,
    bodyClasses,        \* the density classes of document.body
    fired,              \* notifications fired by the last call, in order
    last                \* the last call: operation, arguments, result, state before

colVars == <<columns, fixedColumnCount, rendered>>
selVars == <<selectionMode, selectionBehavior, groupMode, hasBinding, selectedIndices,
             iSourceRowIndex>>
rowVars == <<rowCount, firstVisibleRow, visibleRowCount, fixedRowCount,
             fixedBottomRowCount>>
rhVars == <<mResizeHandlerIds, liveHandles, registered>>
menuVars == <<desktop, enableCellFilter, colMenus, cellMenu, groupRows>>
ctlVars == <<showNoData, analytical, tableClasses, parents, bodyClasses>>
logVars == <<fired, last>>
vars == <<colVars, selVars, rowVars, rhVars, menuVars, ctlVars, logVars>>

NoCall == [op |-> "none"]

\* The parts of the table a family of operations does not touch.
NoMenu == [hasItems |-> FALSE, filterable |-> FALSE, open |-> FALSE, overlay |-> FALSE,
           dropDown |-> FALSE, resizer |-> FALSE, cellHidden |-> FALSE, cellMenus |-> 0,
           focusout |-> FALSE]

NoCellMenu == [exists |-> FALSE, created |-> 0, bOpen |-> FALSE, opener |-> Null,
               target |-> Null]

IdleMenus ==
    /\ desktop = TRUE
    /\ enableCellFilter = FALSE
    /\ colMenus = [i \in 1 .. Len(columns) |-> NoMenu]
    /\ cellMenu = NoCellMenu
    /\ groupRows = {}

IdleControl ==
    /\ showNoData = TRUE
    /\ analytical = Null
    /\ tableClasses = [style |-> {}, dom |-> {}]
    /\ parents = <<>>
    /\ bodyClasses = {}

IdleColumns ==
    /\ columns = <<>>
    /\ fixedColumnCount = 0
    /\ rendered = TRUE

IdleSelection ==
    /\ selectionMode = "None"
    /\ selectionBehavior = "RowSelector"
    /\ groupMode = FALSE
    /\ hasBinding = TRUE
    /\ selectedIndices = {}
    /\ iSourceRowIndex = Null

IdleHandlers ==
    /\ mResizeHandlerIds = Null
    /\ liveHandles = {}
    /\ registered = <<>>

IdleRows ==
    /\ rowCount = 0
    /\ firstVisibleRow = 0
    /\ visibleRowCount = 1
    /\ fixedRowCount = 0
    /\ fixedBottomRowCount = 0

\* =================================================================== columns

\* TableColumnUtils.getMinColumnWidth(): the global minimum column width.
MinColumnWidth == 48

\* Widths the columns start with, and target widths resizeColumn is called with.
InitWidths == {48, 100}
TargetWidths == {100, 201}

\* The columns a table starts with: an invisible column, a visible column with a
\* fixed pixel width, a visible column with a flexible width rendered 100px wide.
ColumnKinds ==
    {[visible |-> FALSE, resizable |-> TRUE, flex |-> FALSE, px |-> 100, minWidth |-> 0]}
    \cup [visible : {TRUE}, resizable : {TRUE}, flex : {FALSE}, px : InitWidths, minWidth : {0}]
    \cup [visible : {TRUE}, resizable : {FALSE}, flex : {FALSE}, px : {100}, minWidth : {0}]
    \cup [visible : {TRUE}, resizable : BOOLEAN, flex : {TRUE}, px : {100}, minWidth : {0}]

ColIdx(cols) == 0 .. (Len(cols) - 1)

\* Table._getVisibleColumns(): the indices of the visible columns, in order.
getVisibleColumns(cols) ==
    SelectSeq([k \in 1 .. Len(cols) |-> k - 1], LAMBDA i : cols[i + 1].visible)

\* TableUtils.isVariableWidth
isVariableWidth(c) == c.flex

isFixedColumnNever(iColIdx, iFixed) == FALSE

\* TableUtils.isFixedColumn
isFixedColumn(iColIdx, iFixed) == iColIdx < iFixed

\* TableUtils.getColumnWidth
getColumnWidth(cols, rend, iColumnIndex) ==
    IF iColumnIndex < 0 \/ iColumnIndex >= Len(cols) THEN Null
    ELSE LET oColumn == cols[iColumnIndex + 1] IN
         IF oColumn.flex
         THEN IF oColumn.visible /\ rend THEN oColumn.px ELSE 0
         ELSE oColumn.px

\* Math.round(a / n) for n > 0: the nearest integer, halves towards +infinity.
RoundDiv(a, n) == (2 * a + n) \div (2 * n)

RECURSIVE SumSeq(_)
SumSeq(s) == IF s = <<>> THEN 0 ELSE Head(s) + SumSeq(Tail(s))

spanCompleteNever(aVisibleColumns, iColumnSpan) == FALSE

\* if (aVisibleColumns.length === iColumnSpan) break
spanComplete(aVisibleColumns, iColumnSpan) == Len(aVisibleColumns) = iColumnSpan

\* aVisibleColumns: the first iColumnSpan visible columns from iColumnIndex on.
RECURSIVE spanVisibleColumns(_, _, _, _)
spanVisibleColumns(cols, i, iColumnSpan, acc) ==
    IF i >= Len(cols) \/ spanComplete(acc, iColumnSpan) THEN acc
    ELSE spanVisibleColumns(cols, i + 1, iColumnSpan,
                            IF cols[i + 1].visible THEN Append(acc, i) ELSE acc)

spanResizableColumnsAll(cols, aVisibleColumns) == aVisibleColumns

\* aResizableColumns
spanResizableColumns(cols, aVisibleColumns) ==
    SelectSeq(aVisibleColumns, LAMBDA i : cols[i + 1].resizable)

\* iSpanWidth
spanWidth(cols, rend, aVisibleColumns) ==
    SumSeq([k \in 1 .. Len(aVisibleColumns) |->
                getColumnWidth(cols, rend, aVisibleColumns[k])])

InSeq(x, s) == \E k \in 1 .. Len(s) : s[k] = x

\* "Fix Auto Columns": pin the rendered width of every visible flexible column
\* that is not being resized as its minimum width.
pinMinWidths(cols, rend, iColumnIndex, iFixed, aResizableColumns) ==
    [k \in 1 .. Len(cols) |->
        IF /\ ~isFixedColumn(iColumnIndex, iFixed)
           /\ cols[k].visible
           /\ rend
           /\ ~InSeq(k - 1, aResizableColumns)
           /\ isVariableWidth(cols[k])
        THEN [cols[k] EXCEPT !.minWidth = Max(cols[k].px, MinColumnWidth)]
        ELSE cols[k]]

clampToMinWidthSkipped(iNewWidth) == iNewWidth

clampToMinWidth(iNewWidth) ==
    IF iNewWidth < MinColumnWidth THEN MinColumnWidth ELSE iNewWidth

distributeRemainingAlways(iWidthChange, iSharedPixelDelta) == TRUE

distributeRemaining(iWidthChange, iSharedPixelDelta) ==
    Abs(iWidthChange) < Abs(iSharedPixelDelta)

executeDefaultUnchecked(bFireEvent, bPrevented) == TRUE

\* bExecuteDefault: the result of fireColumnResize, or true when no event is fired.
executeDefault(bFireEvent, bPrevented) ==
    IF bFireEvent THEN ~bPrevented ELSE TRUE

widthChangedAlways(iWidthChange) == TRUE

\* if (iWidthChange !== 0)
widthChanged(iWidthChange) == iWidthChange # 0

\* The loop over aResizableColumns, from position i (1-based) on.
\* st = [cols, delta, shared, fired, performed]; prevent: the columns whose
\* ColumnResize handler calls preventDefault.
RECURSIVE resizeLoop(_, _, _, _, _, _)
resizeLoop(i, aRes, rend, bFireEvent, prevent, st) ==
    IF i > Len(aRes) THEN st
    ELSE
    LET c == aRes[i]
        iColumnWidth == getColumnWidth(st.cols, rend, c)
        iNewWidth == clampToMinWidth(iColumnWidth + st.shared)
        iWidthChange == iNewWidth - iColumnWidth
        bDistribute == distributeRemaining(iWidthChange, st.shared)
        iRemainingColumnCount == Len(aRes) - i
        delta == IF bDistribute THEN st.delta - iWidthChange ELSE st.delta
        \* With no column remaining the quotient is infinite or NaN in the
        \* source and is never read again.
        shared == IF bDistribute /\ iRemainingColumnCount > 0
                  THEN RoundDiv(delta, iRemainingColumnCount)
                  ELSE st.shared
        bExecuteDefault == executeDefault(bFireEvent, c \in prevent)
        bSet == widthChanged(iWidthChange) /\ bExecuteDefault
    IN resizeLoop(i + 1, aRes, rend, bFireEvent, prevent,
         [cols |-> IF bSet
                   THEN [st.cols EXCEPT ![c + 1].flex = FALSE,
                                        ![c + 1].px = iNewWidth]
                   ELSE st.cols,
          delta |-> delta,
          shared |-> shared,
          fired |-> IF widthChanged(iWidthChange) /\ bFireEvent
                    THEN Append(st.fired, [event |-> "ColumnResize", column |-> c,
                                           width |-> iNewWidth,
                                           prevented |-> c \in prevent])
                    ELSE st.fired,
          performed |-> st.performed \/ bSet])

startColumnBeyond(cols, iColumnIndex) == iColumnIndex >= Len(cols)

\* iColumnIndex >= aColumns.length || !aColumns[iColumnIndex].getVisible()
startColumnMissing(cols, iColumnIndex) ==
    iColumnIndex >= Len(cols) \/ ~cols[iColumnIndex + 1].visible

\* TableUtils.resizeColumn: [cols, fired, ret].  oTable, iColumnIndex, iWidth,
\* bFireEvent and iColumnSpan are optional values (Null or Some).
resizeColumn(cols, rend, iFixed, bTable, oColumnIndex, oWidth, oFireEvent, oColumnSpan, prevent) ==
    LET unchanged == [cols |-> cols, fired |-> <<>>, ret |-> FALSE] IN
    IF \/ ~bTable
       \/ IsNull(oColumnIndex) \/ Val(oColumnIndex) < 0
       \/ IsNull(oWidth) \/ Val(oWidth) <= 0
    THEN unchanged
    ELSE
    LET iColumnIndex == Val(oColumnIndex)
        iWidth == Val(oWidth)
        iColumnSpan == IF IsNull(oColumnSpan) \/ Val(oColumnSpan) <= 0
                       THEN 1 ELSE Val(oColumnSpan)
        bFireEvent == IF IsNull(oFireEvent) THEN TRUE ELSE Val(oFireEvent)
    IN
    IF startColumnMissing(cols, iColumnIndex)
    THEN unchanged
    ELSE
    LET aVisibleColumns == spanVisibleColumns(cols, iColumnIndex, iColumnSpan, <<>>)
        aResizableColumns == spanResizableColumns(cols, aVisibleColumns)
    IN
    IF Len(aResizableColumns) = 0
    THEN unchanged
    ELSE
    LET iSpanWidth == spanWidth(cols, rend, aVisibleColumns)
        iPixelDelta == iWidth - iSpanWidth
        iSharedPixelDelta == RoundDiv(iPixelDelta, Len(aResizableColumns))
        pinned == pinMinWidths(cols, rend, iColumnIndex, iFixed, aResizableColumns)
        out == resizeLoop(1, aResizableColumns, rend, bFireEvent, prevent,
                          [cols |-> pinned, delta |-> iPixelDelta,
                           shared |-> iSharedPixelDelta, fired |-> <<>>,
                           performed |-> FALSE])
    IN [cols |-> out.cols, fired |-> out.fired, ret |-> out.performed]

InitColumns ==
    /\ \E n \in 1 .. MaxCols : columns \in [1 .. n -> ColumnKinds]
    /\ fixedColumnCount \in 0 .. 1
    /\ rendered \in BOOLEAN

InitResize ==
    /\ IdleControl
    /\ InitColumns
    /\ IdleSelection
    /\ IdleRows
    /\ IdleHandlers
    /\ IdleMenus
    /\ fired = <<>>
    /\ last = NoCall

\* The calls of resizeColumn: every well-formed call, and one call for each
\* missing or out-of-range argument.
ResizeCalls(cols) ==
    LET base == [table |-> TRUE, iColumnIndex |-> Some(0), iWidth |-> Some(150),
                 bFireEvent |-> Some(TRUE), iColumnSpan |-> Null]
    IN [table : {TRUE}, iColumnIndex : {Some(i) : i \in ColIdx(cols)},
        iWidth : {Some(w) : w \in TargetWidths},
        bFireEvent : {Null, Some(FALSE)},
        iColumnSpan : {Some(n) : n \in 1 .. MaxCols}]
       \cup {base, [base EXCEPT !.table = FALSE]}
       \cup {[base EXCEPT !.iColumnIndex = i] : i \in {Null, Some(-1), Some(Len(cols))}}
       \cup {[base EXCEPT !.iWidth = w] : w \in {Null, Some(0)}}
       \cup {[base EXCEPT !.iColumnSpan = Some(0)]}

\* The columns a ColumnResize handler can be called for in a call.
notifiableColumns(cols, call) ==
    IF \/ ~call.table \/ IsNull(call.iColumnIndex) \/ Val(call.iColumnIndex) < 0
       \/ Val(call.iColumnIndex) >= Len(cols)
       \/ call.bFireEvent = Some(FALSE)
    THEN {}
    ELSE LET aVis == spanVisibleColumns(cols, Val(call.iColumnIndex),
                        IF IsNull(call.iColumnSpan) \/ Val(call.iColumnSpan) <= 0
                        THEN 1 ELSE Val(call.iColumnSpan), <<>>)
         IN {i \in ColIdx(cols) : InSeq(i, spanResizableColumns(cols, aVis))}

\* One call of resizeColumn on the table; the ColumnResize handler prevents the
\* default for the columns in prevent.
ResizeColumn ==
    /\ last.op = "none"
    /\ \E call \in ResizeCalls(columns) :
       \E prevent \in SUBSET notifiableColumns(columns, call) :
        LET r == resizeColumn(columns, rendered, fixedColumnCount, call.table,
                              call.iColumnIndex, call.iWidth, call.bFireEvent,
                              call.iColumnSpan, prevent)
        IN /\ columns' = r.cols
           /\ fired' = r.fired
           /\ last' = [op |-> "resizeColumn", call |-> call,
                       ret |-> r.ret, pre |-> columns]
    /\ UNCHANGED <<ctlVars, fixedColumnCount, rendered, selVars, rowVars, rhVars, menuVars>>

NextResize == ResizeColumn

SpecResize == InitResize /\ [][NextResize]_vars


\* ------------------------------------------------- resizeColumn: the claims

ResizeDone == last.op = "resizeColumn"

\* The last call passed the argument checks and found a resizable column.
ResizeRan ==
    /\ ResizeDone
    /\ last.call.table
    /\ ~IsNull(last.call.iColumnIndex) /\ Val(last.call.iColumnIndex) \in ColIdx(last.pre)
    /\ ~IsNull(last.call.iWidth) /\ Val(last.call.iWidth) > 0
    /\ last.pre[Val(last.call.iColumnIndex) + 1].visible
    /\ Len(spanResizableColumns(last.pre,
             spanVisibleColumns(last.pre, Val(last.call.iColumnIndex),
                 IF IsNull(last.call.iColumnSpan) \/ Val(last.call.iColumnSpan) <= 0
                 THEN 1 ELSE Val(last.call.iColumnSpan), <<>>))) > 0

LastSpan ==
    IF IsNull(last.call.iColumnSpan) \/ Val(last.call.iColumnSpan) <= 0
    THEN 1 ELSE Val(last.call.iColumnSpan)
LastVisible == spanVisibleColumns(last.pre, Val(last.call.iColumnIndex), LastSpan, <<>>)
LastResizable == spanResizableColumns(last.pre, LastVisible)
LastTarget == Val(last.call.iWidth)
LastFireEvent == last.call.bFireEvent # Some(FALSE)
WidthBefore(c) == getColumnWidth(last.pre, rendered, c)
WidthAfter(c) == getColumnWidth(columns, rendered, c)
LastShare ==
    RoundDiv(LastTarget - spanWidth(last.pre, rendered, LastVisible), Len(LastResizable))
NonePrevented == \A k \in 1 .. Len(fired) : ~fired[k].prevented
AllPrevented == \A k \in 1 .. Len(fired) : fired[k].prevented
\* No column's share is cut by the minimum column width.
NoneClamped ==
    \A k \in 1 .. Len(LastResizable) :
        WidthBefore(LastResizable[k]) + LastShare >= MinColumnWidth
SumAfter == SumSeq([k \in 1 .. Len(LastResizable) |-> WidthAfter(LastResizable[k])])

\* The example of C1: a span of two resizable columns of 100px, target 201px,
\* events fired and none prevented.
TwoByHundred ==
    /\ ResizeRan
    /\ LastFireEvent /\ NonePrevented
    /\ LastTarget = 201
    /\ Len(LastVisible) = 2 /\ Len(LastResizable) = 2
    /\ WidthBefore(LastResizable[1]) = 100
    /\ WidthBefore(LastResizable[2]) = 100

\* C1 as stated: the remaining delta is recomputed after every column, so for
\* two resizable 100px columns and target 201px the first becomes 101px, the
\* second stays 100px and exactly one notification is fired.
C1_RemainderCarryExample ==
    TwoByHundred =>
        /\ WidthAfter(LastResizable[1]) = 101
        /\ WidthAfter(LastResizable[2]) = 100
        /\ Len(fired) = 1

\* C1 amended: every resizable column of the span gets the same share
\* round(delta / N) as long as no column's share is cut by the minimum column
\* width (the remaining delta is recomputed only after such a column); for two
\* resizable 100px columns and target 201px both become 101px and two
\* notifications are fired.
C1_EqualShareUnlessClamped ==
    /\ TwoByHundred =>
         /\ WidthAfter(LastResizable[1]) = 101
         /\ WidthAfter(LastResizable[2]) = 101
         /\ Len(fired) = 2
    /\ (ResizeRan /\ NonePrevented /\ NoneClamped) =>
         \A k \in 1 .. Len(LastResizable) :
            WidthAfter(LastResizable[k]) = WidthBefore(LastResizable[k]) + LastShare

C1_Witness == TwoByHundred /\ Len(fired) = 2

\* C5 as stated: with no notification cancelled, no resizable column of the span
\* ends narrower than the minimum column width and the final widths of the N
\* resizable columns sum to max(W, N * minWidth) within N pixels.
C5_SumIsTarget ==
    (ResizeRan /\ NonePrevented) =>
        /\ \A k \in 1 .. Len(LastResizable) :
              WidthAfter(LastResizable[k]) >= MinColumnWidth
        /\ Abs(SumAfter - Max(LastTarget, Len(LastResizable) * MinColumnWidth))
              <= Len(LastResizable)

\* C5 amended: with no notification cancelled, no resizable column of the span
\* ends narrower than the minimum column width; the final widths sum to
\* max(W, N * minWidth) within N pixels when every visible column of the span is
\* resizable and no column's share is cut by the minimum column width.
C5_MinWidthAndSumUnlessClamped ==
    (ResizeRan /\ NonePrevented) =>
        /\ \A k \in 1 .. Len(LastResizable) :
              WidthAfter(LastResizable[k]) >= MinColumnWidth
        /\ (Len(LastResizable) = Len(LastVisible) /\ NoneClamped) =>
              Abs(SumAfter - Max(LastTarget, Len(LastResizable) * MinColumnWidth))
                 <= Len(LastResizable)

C5_Witness ==
    /\ ResizeRan /\ NonePrevented /\ NoneClamped
    /\ Len(LastResizable) >= 2 /\ Len(LastResizable) = Len(LastVisible)
    /\ SumAfter # LastTarget

\* C6: with event firing enabled, a column whose resize notification is
\* cancelled keeps its previous width; if every fired notification is cancelled,
\* every column width is as before the call and the call returns false.
C6_CancelKeepsWidth ==
    (ResizeDone /\ LastFireEvent) =>
        /\ \A k \in 1 .. Len(fired) :
              fired[k].prevented =>
                 /\ columns[fired[k].column + 1].flex = last.pre[fired[k].column + 1].flex
                 /\ columns[fired[k].column + 1].px = last.pre[fired[k].column + 1].px
        /\ AllPrevented =>
              /\ \A k \in 1 .. Len(columns) :
                    /\ columns[k].flex = last.pre[k].flex
                    /\ columns[k].px = last.pre[k].px
              /\ last.ret = FALSE

C6_Witness ==
    /\ ResizeDone /\ LastFireEvent
    /\ Len(fired) >= 2 /\ AllPrevented
    /\ last.ret = FALSE

\* C7: a resizeColumn call whose notifications are all cancelled changes no
\* table or column state at all, the minimum-width override of the flexible
\* columns included.
C7_CancelledCallChangesNothing ==
    (ResizeDone /\ LastFireEvent /\ Len(fired) >= 1 /\ AllPrevented) =>
        columns = last.pre


\* ================================================================= selection

CELLTYPES == {"DATACELL", "COLUMNHEADER", "ROWHEADER", "COLUMNROWHEADER"}

\* A row indicator: null, an absolute row index, or a DOM element of a rendered
\* row (its cell class, whether its row is a group header, and its
\* data-sap-ui-rowindex).
NullIndicator == [kind |-> "null", v |-> 0, type |-> "NONE", grouping |-> FALSE]
IndexIndicator(i) == [kind |-> "number", v |-> i, type |-> "NONE", grouping |-> FALSE]
DomIndicator(t, g, k) == [kind |-> "dom", v |-> k, type |-> t, grouping |-> g]

\* TableUtils.hasRowHeader
hasRowHeader(mode, behavior, group) ==
    (mode # "None" /\ behavior # "RowOnly") \/ group

\* TableUtils.isRowSelectionAllowed
isRowSelectionAllowed(mode, behavior) ==
    mode # "None" /\ (behavior = "Row" \/ behavior = "RowOnly")

\* TableUtils.isRowSelectorSelectionAllowed
isRowSelectorSelectionAllowed(mode, behavior, group) ==
    mode # "None" /\ hasRowHeader(mode, behavior, group)

\* TableUtils.getCellInfo: the cell type, or Null for an element that is no table cell.
getCellInfo(oCellRef) ==
    IF oCellRef.type \in CELLTYPES THEN Some(oCellRef.type) ELSE Null

\* TableUtils.isInGroupingRow
isInGroupingRow(oCellRef) ==
    LET oInfo == getCellInfo(oCellRef) IN
    IF ~IsNull(oInfo) /\ Val(oInfo) \in {"DATACELL", "ROWHEADER"}
    THEN oCellRef.grouping
    ELSE FALSE

\* Table._getSelectableRowCount: the number of rows the user can select.
getSelectableRowCount(mode, bound, rows) ==
    IF mode = "None" \/ ~bound THEN 0 ELSE rows

\* TableUtils.areAllRowsSelected
areAllRowsSelected(bTable, mode, bound, rows, sel) ==
    IF ~bTable THEN FALSE
    ELSE LET iSelectableRowCount == getSelectableRowCount(mode, bound, rows)
         IN iSelectableRowCount > 0 /\ iSelectableRowCount = Cardinality(sel)

\* Table.isIndexSelected
isIndexSelected(sel, i) == i \in sel

\* Table.addSelectionInterval: in mode Single the interval replaces the selection.
addSelectionInterval(mode, sel, iFrom, iTo) ==
    IF mode = "Single" THEN {iTo} ELSE sel \cup (iFrom .. iTo)

\* Table.removeSelectionInterval
removeSelectionInterval(sel, iFrom, iTo) == sel \ (iFrom .. iTo)

\* Row.getIndex() of the k-th rendered row.
getRowIndex(first, k) == first + k

forcedSelectOrUndefined(oSelect) == IsNull(oSelect) \/ Val(oSelect)

\* bSelect != null && bSelect
forcedSelect(oSelect) == ~IsNull(oSelect) /\ Val(oSelect)

forcedDeselectOrUndefined(oSelect) == IsNull(oSelect) \/ ~Val(oSelect)

\* bSelect != null && !bSelect
forcedDeselect(oSelect) == ~IsNull(oSelect) /\ ~Val(oSelect)

\* toggleRowSelection.setSelectionState: [sel, src, ret]
setSelectionState(mode, sel, iAbsoluteRowIndex, oSelect) ==
    IF isIndexSelected(sel, iAbsoluteRowIndex)
    THEN IF forcedSelect(oSelect)
         THEN [sel |-> sel, src |-> Some(iAbsoluteRowIndex), ret |-> FALSE]
         ELSE [sel |-> removeSelectionInterval(sel, iAbsoluteRowIndex, iAbsoluteRowIndex),
               src |-> Null, ret |-> TRUE]
    ELSE IF forcedDeselect(oSelect)
         THEN [sel |-> sel, src |-> Some(iAbsoluteRowIndex), ret |-> FALSE]
         ELSE [sel |-> addSelectionInterval(mode, sel, iAbsoluteRowIndex, iAbsoluteRowIndex),
               src |-> Null, ret |-> TRUE]

toggleNotPossibleIgnoringMode(bTable, bound, mode, oRowIndicator) ==
    \/ ~bTable
    \/ ~bound
    \/ oRowIndicator.kind = "null"

\* The first check of toggleRowSelection: nothing to do.
toggleNotPossible(bTable, bound, mode, oRowIndicator) ==
    \/ ~bTable
    \/ ~bound
    \/ mode = "None"
    \/ oRowIndicator.kind = "null"

indexOutOfRangeBelow(iRowIndex, rows) == iRowIndex < 0

\* oRowIndicator < 0 || oRowIndicator >= oTable._getRowCount()
indexOutOfRange(iRowIndex, rows) == iRowIndex < 0 \/ iRowIndex >= rows

\* TableUtils.toggleRowSelection: [sel, src, ret]
toggleRowSelection(bTable, mode, behavior, group, bound, rows, first, sel, src, oRowIndicator, oSelect) ==
    LET nothing == [sel |-> sel, src |-> src, ret |-> FALSE] IN
    IF toggleNotPossible(bTable, bound, mode, oRowIndicator)
    THEN nothing
    ELSE IF oRowIndicator.kind = "number"
    THEN IF indexOutOfRange(oRowIndicator.v, rows)
         THEN nothing
         ELSE setSelectionState(mode, sel, oRowIndicator.v, oSelect)
    ELSE LET oCellInfo == getCellInfo(oRowIndicator) IN
         IF /\ ~IsNull(oCellInfo)
            /\ ~isInGroupingRow(oRowIndicator)
            /\ \/ Val(oCellInfo) = "DATACELL" /\ isRowSelectionAllowed(mode, behavior)
               \/ Val(oCellInfo) = "ROWHEADER"
                     /\ isRowSelectorSelectionAllowed(mode, behavior, group)
         THEN setSelectionState(mode, sel, getRowIndex(first, oRowIndicator.v), oSelect)
         ELSE nothing

SelectionModes == {"None", "Single", "MultiToggle"}
SelectionBehaviors == {"Row", "RowOnly", "RowSelector"}

InitSelection ==
    /\ IdleControl
    /\ IdleColumns
    /\ IdleHandlers
    /\ IdleMenus
    /\ selectionMode \in SelectionModes
    /\ selectionBehavior \in SelectionBehaviors
    /\ groupMode \in BOOLEAN
    /\ hasBinding \in BOOLEAN
    /\ rowCount \in 0 .. MaxSelRows
    /\ visibleRowCount = MaxSelVisible
    /\ firstVisibleRow \in 0 .. Max(0, rowCount - visibleRowCount)
    /\ fixedRowCount = 0
    /\ fixedBottomRowCount = 0
    /\ selectedIndices \in SUBSET (0 .. (rowCount - 1))
    /\ selectionMode = "Single" => Cardinality(selectedIndices) <= 1
    /\ iSourceRowIndex = Null
    /\ fired = <<>>
    /\ last = NoCall

\* The elements of the rendered rows a row indicator can be.
DomIndicators(vis) ==
    {DomIndicator(t, g, k) : t \in {"DATACELL", "ROWHEADER"}, g \in BOOLEAN,
                             k \in 0 .. (vis - 1)}
    \cup {DomIndicator("COLUMNHEADER", FALSE, 0), DomIndicator("NONE", FALSE, 0)}

ToggleCalls(rows, vis) ==
    [table : {TRUE},
     oRowIndicator : {NullIndicator} \cup {IndexIndicator(i) : i \in -1 .. rows}
                     \cup DomIndicators(vis),
     bSelect : {Null, Some(TRUE), Some(FALSE)}]
    \cup {[table |-> FALSE, oRowIndicator |-> IndexIndicator(0), bSelect |-> Null]}

\* One call of toggleRowSelection.  repeat: the call before was the same call;
\* prePre: the selection before that call.
ToggleRowSelection ==
    /\ \E call \in ToggleCalls(rowCount, visibleRowCount) :
        LET r == toggleRowSelection(call.table, selectionMode, selectionBehavior,
                     groupMode, hasBinding, rowCount, firstVisibleRow,
                     selectedIndices, iSourceRowIndex, call.oRowIndicator, call.bSelect)
            repeat == last.op = "toggleRowSelection" /\ last.call = call
        IN /\ selectedIndices' = r.sel
           /\ iSourceRowIndex' = r.src
           /\ last' = [op |-> "toggleRowSelection", call |-> call, ret |-> r.ret,
                       pre |-> selectedIndices, repeat |-> repeat,
                       prePre |-> IF repeat THEN last.pre ELSE {}]
    /\ UNCHANGED <<selectionMode, selectionBehavior, groupMode, hasBinding>>
    /\ UNCHANGED <<ctlVars, colVars, rowVars, rhVars, menuVars, fired>>

NextSelection == ToggleRowSelection

SpecSelection == InitSelection /\ [][NextSelection]_vars


\* -------------------------------------------------------- selection: the claims

ToggleDone == last.op = "toggleRowSelection"

\* The last two calls were toggleRowSelection(table, i) for the same valid
\* absolute row index i, with no forced state, on a bound table with selection
\* enabled.
DoubleToggle ==
    /\ ToggleDone
    /\ last.repeat
    /\ last.call.table
    /\ hasBinding
    /\ selectionMode # "None"
    /\ last.call.oRowIndicator.kind = "number"
    /\ last.call.oRowIndicator.v \in 0 .. (rowCount - 1)
    /\ IsNull(last.call.bSelect)

\* C2 as stated: in every selection mode other than None, toggling a valid row
\* index twice with no forced state restores the set of selected indices.
C2_DoubleToggleRestores ==
    DoubleToggle => selectedIndices = last.prePre

\* C2 amended: toggling a valid row index i twice with no forced state restores
\* the set of selected indices in mode MultiToggle, and in mode Single when no
\* row other than i was selected before the first call.
C2_DoubleToggleRestoresMulti ==
    (DoubleToggle /\ (selectionMode = "MultiToggle"
                        \/ last.prePre \subseteq {last.call.oRowIndicator.v}))
        => selectedIndices = last.prePre

C2_Witness ==
    /\ DoubleToggle
    /\ selectionMode = "MultiToggle"
    /\ Cardinality(last.prePre) = 1
    /\ last.call.oRowIndicator.v \notin last.prePre
    /\ selectedIndices = last.prePre

getNonEmptyVisibleRowCountAll(vis, rows) == vis

getNonEmptyVisibleRowCount(vis, rows) == Min(vis, rows)

\* Table._getSanitizedFirstVisibleRow: the cursor, kept inside the rows.
getSanitizedFirstVisibleRow(first, rows, vis) ==
    Max(0, Min(first, rows - vis))

scrollDownTargetUnclamped(iFirst, iSize, iRowCount, iVisibleRowCount) == iFirst + iSize

\* The row scroll() moves the cursor to when scrolling down.
scrollDownTarget(iFirst, iSize, iRowCount, iVisibleRowCount) ==
    Min(iFirst + iSize, iRowCount - iVisibleRowCount)

\* The row scroll() moves the cursor to when scrolling up.
scrollUpTarget(iFirst, iSize) == Max(iFirst - iSize, 0)

scrollSizeSingle(bPage, iScrollableRowCount) == 1

\* iSize: the scrollable row count for a page, 1 for a step
scrollSize(bPage, iScrollableRowCount) == IF bPage THEN iScrollableRowCount ELSE 1

rowsBelowOrNone(iFirst, iVisibleRowCount, iRowCount) == iFirst + iVisibleRowCount <= iRowCount

\* scroll: iFirstVisibleScrollableRow + iVisibleRowCount < iRowCount
rowsBelow(iFirst, iVisibleRowCount, iRowCount) == iFirst + iVisibleRowCount < iRowCount

\* TableUtils.scroll: [first, ret]
scroll(rows, vis, fixed, fixedBottom, first, bDown, bPage) ==
    LET iRowCount == rows
        iVisibleRowCount == vis
        iScrollableRowCount == iVisibleRowCount - fixed - fixedBottom
        iFirstVisibleScrollableRow == getSanitizedFirstVisibleRow(first, rows, vis)
        iSize == scrollSize(bPage, iScrollableRowCount)
    IN IF bDown
       THEN IF rowsBelow(iFirstVisibleScrollableRow, iVisibleRowCount, iRowCount)
            THEN [first |-> scrollDownTarget(iFirstVisibleScrollableRow, iSize,
                                             iRowCount, iVisibleRowCount),
                  ret |-> TRUE]
            ELSE [first |-> first, ret |-> FALSE]
       ELSE IF iFirstVisibleScrollableRow > 0
            THEN [first |-> scrollUpTarget(iFirstVisibleScrollableRow, iSize),
                  ret |-> TRUE]
            ELSE [first |-> first, ret |-> FALSE]

beforeLastPageByTwo(iFirstVisibleScrollableRow, iFirstVisibleRow) == iFirstVisibleScrollableRow + 1 < iFirstVisibleRow

\* scrollMax: iFirstVisibleScrollableRow < iFirstVisibleRow
beforeLastPage(iFirstVisibleScrollableRow, iFirstVisibleRow) == iFirstVisibleScrollableRow < iFirstVisibleRow

\* TableUtils.scrollMax: [first, ret]
scrollMax(rows, vis, first, bDown) ==
    LET iFirstVisibleScrollableRow == getSanitizedFirstVisibleRow(first, rows, vis) IN
    IF bDown
    THEN LET iFirstVisibleRow == rows - getNonEmptyVisibleRowCount(vis, rows) IN
         IF beforeLastPage(iFirstVisibleScrollableRow, iFirstVisibleRow)
         THEN [first |-> iFirstVisibleRow, ret |-> TRUE]
         ELSE [first |-> first, ret |-> FALSE]
    ELSE IF iFirstVisibleScrollableRow > 0
         THEN [first |-> 0, ret |-> TRUE]
         ELSE [first |-> first, ret |-> FALSE]

\* The fixed rows are rows of the viewport; the cursor starts inside the rows.
InitScroll ==
    /\ IdleControl
    /\ IdleColumns
    /\ IdleSelection
    /\ IdleHandlers
    /\ IdleMenus
    /\ rowCount \in 0 .. MaxScrollRows
    /\ visibleRowCount \in 1 .. MaxScrollVisible
    /\ fixedRowCount \in 0 .. visibleRowCount
    /\ fixedBottomRowCount \in 0 .. (visibleRowCount - fixedRowCount)
    /\ firstVisibleRow \in 0 .. Max(0, rowCount - visibleRowCount)
    /\ fired = <<>>
    /\ last = NoCall

\* The operation and direction of the call before, <<>> when there was none.
PrevScroll == IF last.op = "none" THEN <<>> ELSE <<last.op, last.bDown>>

Scroll ==
    /\ \E bDown \in BOOLEAN, bPage \in BOOLEAN :
        LET r == scroll(rowCount, visibleRowCount, fixedRowCount, fixedBottomRowCount,
                        firstVisibleRow, bDown, bPage)
        IN /\ firstVisibleRow' = r.first
           /\ last' = [op |-> "scroll", bDown |-> bDown, bPage |-> bPage,
                       ret |-> r.ret, pre |-> firstVisibleRow, prev |-> PrevScroll]
    /\ UNCHANGED <<rowCount, visibleRowCount, fixedRowCount, fixedBottomRowCount>>
    /\ UNCHANGED <<ctlVars, colVars, selVars, rhVars, menuVars, fired>>

ScrollMax ==
    /\ \E bDown \in BOOLEAN :
        LET r == scrollMax(rowCount, visibleRowCount, firstVisibleRow, bDown)
        IN /\ firstVisibleRow' = r.first
           /\ last' = [op |-> "scrollMax", bDown |-> bDown, bPage |-> FALSE,
                       ret |-> r.ret, pre |-> firstVisibleRow, prev |-> PrevScroll]
    /\ UNCHANGED <<rowCount, visibleRowCount, fixedRowCount, fixedBottomRowCount>>
    /\ UNCHANGED <<ctlVars, colVars, selVars, rhVars, menuVars, fired>>

NextScroll == Scroll \/ ScrollMax

SpecScroll == InitScroll /\ [][NextScroll]_vars

\* ----------------------------------------------------------- scroll: the claims

Keys == {"", "sapUiTableCnt"}

\* An argument that should be a string: a key, or a value of another type.
StringArg(k) == [type |-> "string", keys |-> <<k>>]
UndefinedArg == [type |-> "undefined", keys |-> <<>>]
ArrayArg(ks) == [type |-> "array", keys |-> ks]
OtherArg == [type |-> "other", keys |-> <<>>]

\* ResizeHandler.register: a new handle, live from now on.
newHandle(reg) == Len(reg) + 1

\* The keys listed by for (sKey in oTable._mResizeHandlerIds).
RECURSIVE SetToSeq(_)
SetToSeq(S) ==
    IF S = {} THEN <<>>
    ELSE LET x == CHOOSE y \in S : TRUE IN <<x>> \o SetToSeq(S \ {x})

ownKeysNone(map) == <<>>

ownKeys(map) == SetToSeq({k \in Keys : map[k] # 0})

\* The loop of deregisterResizeHandler over aIdSuffix: [map, live]
RECURSIVE deregisterEach(_, _, _)
deregisterEach(aIdSuffix, map, live) ==
    IF aIdSuffix = <<>> THEN [map |-> map, live |-> live]
    ELSE LET sIdSuffix == Head(aIdSuffix) IN
         IF map[sIdSuffix] # 0
         THEN deregisterEach(Tail(aIdSuffix), [map EXCEPT ![sIdSuffix] = 0],
                             live \ {map[sIdSuffix]})
         ELSE deregisterEach(Tail(aIdSuffix), map, live)

\* TableUtils.deregisterResizeHandler: [map, live, threw].  With a vIdSuffix that
\* is no string, no array and not undefined, aIdSuffix stays undefined and
\* reading its length throws.
deregisterResizeHandler(map, live, vIdSuffix) ==
    IF IsNull(map)
    THEN [map |-> map, live |-> live, threw |-> FALSE]
    ELSE IF vIdSuffix.type = "other"
    THEN [map |-> map, live |-> live, threw |-> TRUE]
    ELSE LET aIdSuffix == IF vIdSuffix.type = "undefined" THEN ownKeys(map)
                          ELSE vIdSuffix.keys
             r == deregisterEach(aIdSuffix, map, live)
         IN [map |-> r.map, live |-> r.live, threw |-> FALSE]

supersedeSkipped(map, live, sIdSuffix) == [map |-> map, live |-> live, threw |-> FALSE]

\* registerResizeHandler, line 670: the handler registered for the key so far
\* is de-registered.
supersede(map, live, sIdSuffix) ==
    deregisterResizeHandler(map, live, StringArg(sIdSuffix))

resizeTargetSelf(bRegisterParent, domRef) == domRef

\* if (bRegisterParent && oDomRef) oDomRef = oDomRef.parentNode
resizeTarget(bRegisterParent, domRef) ==
    IF bRegisterParent /\ domRef # "none"
    THEN (IF domRef = "attached" THEN "parent" ELSE "none")
    ELSE domRef

\* TableUtils.registerResizeHandler: [map, live, reg, ret, logged].
\* domRef: "none" (no DOM element for the suffix), "detached" (an element
\* without parent node) or "attached".
registerResizeHandler(map, live, reg, sIdSuffix, bHandlerIsFunction, bRegisterParent, domRef) ==
    IF sIdSuffix.type # "string" \/ ~bHandlerIsFunction
    THEN [map |-> map, live |-> live, reg |-> reg, ret |-> Null, logged |-> TRUE]
    ELSE
    LET k == sIdSuffix.keys[1]
        d == supersede(map, live, k)
        map1 == IF IsNull(d.map) THEN [x \in Keys |-> 0] ELSE d.map
        oDomRef == resizeTarget(bRegisterParent, domRef)
        h == newHandle(reg)
    IN IF oDomRef # "none"
       THEN [map |-> [map1 EXCEPT ![k] = h], live |-> d.live \cup {h},
             reg |-> Append(reg, k), ret |-> Some(h), logged |-> FALSE]
       ELSE [map |-> map1, live |-> d.live, reg |-> reg,
             ret |-> IF map1[k] = 0 THEN Null ELSE Some(map1[k]), logged |-> FALSE]

InitHandlers ==
    /\ IdleControl
    /\ IdleColumns
    /\ IdleSelection
    /\ IdleRows
    /\ IdleMenus
    /\ IdleHandlers
    /\ fired = <<>>
    /\ last = NoCall

RegisterCalls ==
    [sIdSuffix : {StringArg(k) : k \in Keys}, fnHandler : {TRUE},
     bRegisterParent : BOOLEAN, domRef : {"none", "detached", "attached"}]
    \cup {[sIdSuffix |-> OtherArg, fnHandler |-> TRUE, bRegisterParent |-> FALSE,
           domRef |-> "attached"],
          [sIdSuffix |-> StringArg(""), fnHandler |-> FALSE, bRegisterParent |-> FALSE,
           domRef |-> "attached"]}

KeySeqs == {<<>>} \cup {<<k>> : k \in Keys} \cup {<<j, k>> : j \in Keys, k \in Keys}

DeregisterCalls ==
    {StringArg(k) : k \in Keys} \cup {UndefinedArg, OtherArg}
    \cup {ArrayArg(ks) : ks \in KeySeqs}

RegisterResizeHandler ==
    /\ Len(registered) < MaxHandles
    /\ \E call \in RegisterCalls :
        LET r == registerResizeHandler(mResizeHandlerIds, liveHandles, registered,
                     call.sIdSuffix, call.fnHandler, call.bRegisterParent, call.domRef)
        IN /\ mResizeHandlerIds' = r.map
           /\ liveHandles' = r.live
           /\ registered' = r.reg
           /\ last' = [op |-> "registerResizeHandler", call |-> call, ret |-> r.ret,
                       threw |-> FALSE, logged |-> r.logged,
                       pre |-> [map |-> mResizeHandlerIds, live |-> liveHandles]]
    /\ UNCHANGED <<ctlVars, colVars, selVars, rowVars, menuVars, fired>>

DeregisterResizeHandler ==
    /\ \E call \in DeregisterCalls :
        LET r == deregisterResizeHandler(mResizeHandlerIds, liveHandles, call)
        IN /\ mResizeHandlerIds' = r.map
           /\ liveHandles' = r.live
           /\ last' = [op |-> "deregisterResizeHandler", call |-> call, ret |-> Null,
                       threw |-> r.threw, logged |-> FALSE,
                       pre |-> [map |-> mResizeHandlerIds, live |-> liveHandles]]
    /\ UNCHANGED <<ctlVars, registered, colVars, selVars, rowVars, menuVars, fired>>

NextHandlers == RegisterResizeHandler \/ DeregisterResizeHandler

SpecHandlers == InitHandlers /\ [][NextHandlers]_vars

\* -------------------------------------------------- resize handlers: the claims

\* The live handles registered for key k.
LiveFor(k) == {h \in liveHandles : registered[h] = k}

\* Handle h is the one stored for its key.
Stored(h) == ~IsNull(mResizeHandlerIds) /\ mResizeHandlerIds[registered[h]] = h

\* C9: after any sequence of registerResizeHandler and deregisterResizeHandler
\* calls, each key has at most one live handle, a registration for a key with a
\* live handle has de-registered that handle, and every handle that was
\* registered and is no longer stored in the map has been de-registered.
C9_OneLiveHandlePerKey ==
    /\ \A k \in Keys : Cardinality(LiveFor(k)) <= 1
    /\ \A h \in 1 .. Len(registered) : h \in liveHandles <=> Stored(h)
    /\ (last.op = "registerResizeHandler" /\ ~IsNull(last.pre.map)
          /\ last.call.sIdSuffix.type = "string" /\ last.call.fnHandler) =>
         LET old == last.pre.map[last.call.sIdSuffix.keys[1]] IN
         old # 0 => old \notin liveHandles

C9_Witness ==
    /\ last.op = "registerResizeHandler"
    /\ ~IsNull(last.ret)
    /\ ~IsNull(last.pre.map)
    /\ last.pre.map[last.call.sIdSuffix.keys[1]] \in last.pre.live
    /\ Cardinality(liveHandles) = 2

\* C10: deregisterResizeHandler(table) without an ID suffix de-registers every
\* live handle of the table: afterwards no key maps to a live handle.
C10_DeregisterAllReleasesAll ==
    (last.op = "deregisterResizeHandler" /\ last.call.type = "undefined") =>
        /\ liveHandles = {}
        /\ ~IsNull(mResizeHandlerIds) => \A k \in Keys : mResizeHandlerIds[k] = 0

C10_Witness ==
    /\ last.op = "deregisterResizeHandler" /\ last.call.type = "undefined"
    /\ Cardinality(last.pre.live) = 2
    /\ liveHandles = {}


\* ============================================================= context menus

\* A DOM element handed to openContextMenu: null, or an element identified by
\* the cell enclosing it (type "NONE": it is in no table cell).  col is the
\* data-sap-ui-colindex of a header cell or the column index in the ID of a
\* data cell, row the row index in the ID of a data cell.
NullElement == [kind |-> "null", type |-> "NONE", col |-> 0, row |-> 0, grouping |-> FALSE]
CellElement(t, c, r, g) == [kind |-> "dom", type |-> t, col |-> c, row |-> r, grouping |-> g]

\* TableUtils.getCell: the enclosing cell, or null
getCell(oElement) ==
    IF oElement.kind = "null" THEN Null
    ELSE IF oElement.type \in CELLTYPES THEN Some(oElement)
    ELSE Null

\* oTable == null || iColumnIndex == null || iColumnIndex < 0, then
\* iColumnIndex >= oColumns.length
noSuchColumn(bTable, cols, iColumnIndex) ==
    ~bTable \/ IsNull(iColumnIndex) \/ Val(iColumnIndex) < 0 \/ Val(iColumnIndex) >= Len(cols)

\* TableUtils.removeColumnHeaderCellMenu
removeColumnHeaderCellMenu(bTable, cols, cm, iColumnIndex) ==
    IF noSuchColumn(bTable, cols, iColumnIndex) THEN cm
    ELSE LET k == Val(iColumnIndex) + 1 IN
         IF cm[k].overlay
         THEN [cm EXCEPT ![k].overlay = FALSE, ![k].dropDown = FALSE,
                         ![k].resizer = FALSE, ![k].cellHidden = FALSE,
                         ![k].cellMenus = 0]
         ELSE cm

\* bCellMenuAlreadyExists: the header holds a .sapUiTableColCellMenu element
cellMenuAlreadyExists(oHeader) == oHeader.cellMenus > 0

\* TableUtils.applyColumnHeaderCellMenu
applyColumnHeaderCellMenu(bTable, cols, cm, iColumnIndex) ==
    IF noSuchColumn(bTable, cols, iColumnIndex) THEN cm
    ELSE LET k == Val(iColumnIndex) + 1 IN
         IF cols[k].visible /\ (cols[k].resizable \/ cm[k].hasItems)
               /\ ~cellMenuAlreadyExists(cm[k])
         THEN [cm EXCEPT ![k].overlay = TRUE, ![k].dropDown = cm[k].hasItems,
                         ![k].resizer = cols[k].resizable, ![k].cellHidden = TRUE,
                         ![k].cellMenus = @ + 1, ![k].focusout = TRUE]
         ELSE cm

closeColumnContextMenuAll(bTable, cols, cm, iColumnIndex) ==
    IF noSuchColumn(bTable, cols, iColumnIndex) THEN cm
    ELSE [k \in 1 .. Len(cm) |-> [cm[k] EXCEPT !.open = FALSE]]

\* TableUtils.closeColumnContextMenu
closeColumnContextMenu(bTable, cols, cm, iColumnIndex) ==
    IF noSuchColumn(bTable, cols, iColumnIndex) THEN cm
    ELSE [cm EXCEPT ![Val(iColumnIndex) + 1].open = FALSE]

closeOtherColumnMenusSkipped(bTable, cols, cm, iColumnIndex) == cm

\* The loop of openColumnContextMenu closing the menus of the other columns.
closeOtherColumnMenus(bTable, cols, cm, iColumnIndex) ==
    [k \in 1 .. Len(cm) |->
        IF k - 1 # iColumnIndex THEN closeColumnContextMenu(bTable, cols, cm, Some(k - 1))[k]
        ELSE cm[k]]

\* Column._openMenu: the column's menu is open.
openMenu(cm, iColumnIndex) == [cm EXCEPT ![iColumnIndex + 1].open = TRUE]

\* TableUtils.openColumnContextMenu
openColumnContextMenu(bTable, cols, cm, iColumnIndex) ==
    IF noSuchColumn(bTable, cols, iColumnIndex) THEN cm
    ELSE IF ~cols[Val(iColumnIndex) + 1].visible THEN cm
    ELSE openMenu(closeOtherColumnMenus(bTable, cols, cm, Val(iColumnIndex)), Val(iColumnIndex))

\* Menu.close
closeMenu(oMenu) == [oMenu EXCEPT !.bOpen = FALSE, !.opener = Null]

\* TableUtils.closeDataCellContextMenu
closeDataCellContextMenu(bTable, oMenu) ==
    IF ~bTable THEN oMenu
    ELSE IF oMenu.exists /\ oMenu.bOpen THEN closeMenu(oMenu) ELSE oMenu

\* Menu.open: no effect on a menu that is open.
openMenuAt(oMenu, eCell) ==
    IF oMenu.bOpen THEN oMenu ELSE [oMenu EXCEPT !.bOpen = TRUE, !.opener = Some(eCell)]

\* openDataCellContextMenu, lines 1294-1332: the menu instance is created the
\* first time, and its filter item is bound to the column and the row's index.
bindCellContextMenu(oMenu, iColumnIndex, iAbsoluteRowIndex) ==
    LET t == Some([column |-> iColumnIndex, rowIndex |-> iAbsoluteRowIndex]) IN
    IF ~oMenu.exists
    THEN [exists |-> TRUE, created |-> oMenu.created + 1, bOpen |-> FALSE,
          opener |-> Null, target |-> t]
    ELSE [oMenu EXCEPT !.target = t]

menuOpenAtAnotherDataCellIgnored(oMenu, eCell) == FALSE

\* oTable._oCellContextMenu.bOpen && oTable._oCellContextMenu.oOpenerRef !== eCell
menuOpenAtAnotherDataCell(oMenu, eCell) == oMenu.bOpen /\ oMenu.opener # Some(eCell)

\* TableUtils.openDataCellContextMenu
openDataCellContextMenu(bTable, cols, cm, oMenu, bCellFilter, rows, vis, first, groups, iColumnIndex, iRowIndex) ==
    IF noSuchColumn(bTable, cols, iColumnIndex) \/ IsNull(iRowIndex) \/ Val(iRowIndex) < 0
       \/ Val(iRowIndex) >= getNonEmptyVisibleRowCount(vis, rows)
    THEN oMenu
    ELSE IF ~cols[Val(iColumnIndex) + 1].visible THEN oMenu
    ELSE IF ~(bCellFilter /\ cm[Val(iColumnIndex) + 1].filterable) THEN oMenu
    ELSE
    LET eCell == <<Val(iRowIndex), Val(iColumnIndex)>>
        oCell == CellElement("DATACELL", Val(iColumnIndex), Val(iRowIndex),
                             Val(iRowIndex) \in groups)
        m1 == bindCellContextMenu(oMenu, Val(iColumnIndex),
                                  getRowIndex(first, Val(iRowIndex)))
    IN IF isInGroupingRow(oCell) THEN m1
       ELSE LET bMenuOpenAtAnotherDataCell == menuOpenAtAnotherDataCell(m1, eCell)
                m2 == IF bMenuOpenAtAnotherDataCell THEN closeDataCellContextMenu(bTable, m1)
                      ELSE m1
            IN openMenuAt(m2, eCell)

cellHasMenuButtonNever(oHeader) == FALSE

\* $TableCell.find(".sapUiTableColDropDown").length > 0
cellHasMenuButton(oHeader) == oHeader.overlay /\ oHeader.dropDown

bExecuteDefaultAlways(bFireEvent, prevent) == TRUE

\* bExecuteDefault: true unless the event was fired and a handler prevented the default
bExecuteDefault(bFireEvent, prevent) == ~(bFireEvent /\ prevent)

\* The column of the ColumnSelect event: oTable._getVisibleColumns()[iColumnIndex]
columnSelectColumn(cols, iColumnIndex) ==
    LET v == getVisibleColumns(cols) IN
    IF iColumnIndex + 1 \in 1 .. Len(v) THEN Some(v[iColumnIndex + 1]) ELSE Null

\* TableUtils.openContextMenu: [cm, menu, fired]
openContextMenu(bTable, cols, cm, oMenu, bDesktop, bCellFilter, rows, vis, first, groups, oElement, oFireEvent, prevent) ==
    LET bFireEvent == IF IsNull(oFireEvent) THEN TRUE ELSE Val(oFireEvent)
        oTableCell == getCell(oElement)
        same == [cm |-> cm, menu |-> oMenu, fired |-> <<>>]
    IN
    IF ~bTable \/ oElement.kind = "null" THEN same
    ELSE IF IsNull(oTableCell) THEN same
    ELSE IF Val(getCellInfo(Val(oTableCell))) = "COLUMNHEADER" THEN
        LET iColumnIndex == Val(oTableCell).col
            bCellHasMenuButton == cellHasMenuButton(cm[iColumnIndex + 1])
        IN IF bDesktop \/ bCellHasMenuButton
           THEN LET cm1 == removeColumnHeaderCellMenu(bTable, cols, cm, Some(iColumnIndex))
                    ev == IF bFireEvent
                          THEN <<[event |-> "ColumnSelect",
                                  column |-> columnSelectColumn(cols, iColumnIndex),
                                  prevented |-> prevent]>>
                          ELSE <<>>
                IN [cm |-> IF bExecuteDefault(bFireEvent, prevent)
                           THEN openColumnContextMenu(bTable, cols, cm1, Some(iColumnIndex))
                           ELSE cm1,
                    menu |-> oMenu, fired |-> ev]
           ELSE [cm |-> applyColumnHeaderCellMenu(bTable, cols, cm, Some(iColumnIndex)),
                 menu |-> oMenu, fired |-> <<>>]
    ELSE IF Val(getCellInfo(Val(oTableCell))) = "DATACELL" THEN
        LET iRowIndex == Val(oTableCell).row
            iColumnIndex == Val(oTableCell).col
            ev == IF bFireEvent
                  THEN <<[event |-> "CellContextmenu",
                          rowIndex |-> getRowIndex(first, iRowIndex),
                          columnIndex |-> iColumnIndex, prevented |-> prevent]>>
                  ELSE <<>>
        IN [cm |-> cm,
            menu |-> IF bExecuteDefault(bFireEvent, prevent)
                     THEN openDataCellContextMenu(bTable, cols, cm, oMenu, bCellFilter, rows, vis,
                              first, groups, Some(iColumnIndex), Some(iRowIndex))
                     ELSE oMenu,
            fired |-> ev]
    ELSE same

\* The kinds of column of a table with menus: a column with menu items, a
\* resizable column without, a column with neither, and an invisible column.
MenuColumnKinds ==
    <<[visible |-> TRUE, resizable |-> TRUE, hasItems |-> TRUE, filterable |-> TRUE],
     [visible |-> TRUE, resizable |-> TRUE, hasItems |-> FALSE, filterable |-> TRUE],
     [visible |-> TRUE, resizable |-> FALSE, hasItems |-> FALSE, filterable |-> FALSE],
     [visible |-> FALSE, resizable |-> TRUE, hasItems |-> TRUE, filterable |-> TRUE]>>

\* The tables: MaxMenuCols columns of consecutive kinds, from every first kind.
MenuTables ==
    {[i \in 1 .. MaxMenuCols |-> MenuColumnKinds[((s + i) % Len(MenuColumnKinds)) + 1]] :
        s \in 1 .. Len(MenuColumnKinds)}

InitMenu ==
    /\ IdleControl
    /\ \E ks \in MenuTables :
        /\ columns = [i \in 1 .. MaxMenuCols |->
                        [visible |-> ks[i].visible, resizable |-> ks[i].resizable,
                         flex |-> FALSE, px |-> 100, minWidth |-> 0]]
        /\ colMenus = [i \in 1 .. MaxMenuCols |->
                        [NoMenu EXCEPT !.hasItems = ks[i].hasItems,
                                       !.filterable = ks[i].filterable]]
    /\ fixedColumnCount = 0
    /\ rendered = TRUE
    /\ IdleSelection
    /\ IdleHandlers
    /\ rowCount \in 0 .. MaxMenuVisible
    /\ visibleRowCount = MaxMenuVisible
    /\ firstVisibleRow = 0
    /\ fixedRowCount = 0
    /\ fixedBottomRowCount = 0
    /\ groupRows \in {{}} \cup {{0} : r \in 1 .. rowCount}
    /\ desktop \in BOOLEAN
    /\ enableCellFilter \in BOOLEAN
    /\ cellMenu = NoCellMenu
    /\ fired = <<>>
    /\ last = NoCall

\* The cells of the rendered table: one header per visible column, one data
\* cell per rendered row and visible column, one row header per rendered row.
HeaderCells(cols) ==
    {CellElement("COLUMNHEADER", c, 0, FALSE) : c \in {i \in ColIdx(cols) : cols[i + 1].visible}}

DataCells(cols, vis, groups) ==
    {CellElement("DATACELL", c, r, r \in groups) :
        c \in {i \in ColIdx(cols) : cols[i + 1].visible}, r \in 0 .. (vis - 1)}

Elements(cols, vis, groups) ==
    {NullElement, CellElement("NONE", 0, 0, FALSE), CellElement("ROWHEADER", 0, 0, FALSE)}
    \cup HeaderCells(cols) \cup DataCells(cols, vis, groups)

\* An index argument: null, out of range on either side, or a column / row.
IndexArgs(n) == {Null} \cup {Some(i) : i \in -1 .. n}

MenuState == [colMenus |-> colMenus, cellMenu |-> cellMenu]

\* The table and index arguments of a call: a table with any index, or no table.
TableIndexArgs(n) == ({TRUE} \X IndexArgs(n)) \cup {<<FALSE, Some(0)>>}

OpenContextMenu ==
    /\ \E bTable \in BOOLEAN, oElement \in Elements(columns, visibleRowCount, groupRows),
          oFireEvent \in {Null, Some(FALSE)}, prevent \in BOOLEAN :
        /\ prevent => IsNull(oFireEvent)
        /\ IsNull(getCell(oElement)) => (IsNull(oFireEvent) /\ ~prevent)
        /\ ~bTable => (oElement \in HeaderCells(columns) /\ IsNull(oFireEvent) /\ ~prevent)
        /\ LET r == openContextMenu(bTable, columns, colMenus, cellMenu, desktop,
                        enableCellFilter, rowCount, visibleRowCount, firstVisibleRow,
                        groupRows, oElement, oFireEvent, prevent)
           IN /\ colMenus' = r.cm
              /\ cellMenu' = r.menu
              /\ fired' = r.fired
              /\ last' = [op |-> "openContextMenu",
                          call |-> [table |-> bTable, oElement |-> oElement,
                                    bFireEvent |-> oFireEvent, prevent |-> prevent],
                          pre |-> MenuState]
    /\ UNCHANGED <<ctlVars, colVars, selVars, rowVars, rhVars, desktop, enableCellFilter, groupRows>>

ColumnMenuCallClosingCellMenu(op, bTable, iColumnIndex, cm) ==
    /\ colMenus' = cm
    /\ last' = [op |-> op, call |-> [table |-> bTable, iColumnIndex |-> iColumnIndex],
                pre |-> MenuState]
    /\ fired' = <<>>
    /\ cellMenu' = closeDataCellContextMenu(bTable, cellMenu)
    /\ UNCHANGED <<ctlVars, colVars, selVars, rowVars, rhVars, desktop, enableCellFilter, groupRows>>

\* A call of a column menu function that leaves the column menus cm.
ColumnMenuCall(op, bTable, iColumnIndex, cm) ==
    /\ colMenus' = cm
    /\ last' = [op |-> op, call |-> [table |-> bTable, iColumnIndex |-> iColumnIndex],
                pre |-> MenuState]
    /\ fired' = <<>>
    /\ UNCHANGED <<ctlVars, colVars, selVars, rowVars, rhVars, desktop, enableCellFilter, groupRows,
                   cellMenu>>

OpenColumnContextMenu ==
    \E a \in TableIndexArgs(Len(columns)) :
        ColumnMenuCall("openColumnContextMenu", a[1], a[2],
                       openColumnContextMenu(a[1], columns, colMenus, a[2]))

CloseColumnContextMenu ==
    \E a \in TableIndexArgs(Len(columns)) :
        ColumnMenuCall("closeColumnContextMenu", a[1], a[2],
                       closeColumnContextMenu(a[1], columns, colMenus, a[2]))

ApplyColumnHeaderCellMenu ==
    \E a \in TableIndexArgs(Len(columns)) :
        ColumnMenuCall("applyColumnHeaderCellMenu", a[1], a[2],
                       applyColumnHeaderCellMenu(a[1], columns, colMenus, a[2]))

RemoveColumnHeaderCellMenu ==
    \E a \in TableIndexArgs(Len(columns)) :
        ColumnMenuCall("removeColumnHeaderCellMenu", a[1], a[2],
                       removeColumnHeaderCellMenu(a[1], columns, colMenus, a[2]))

\* this.off("focusout"): the header's focusout handlers are unbound
offFocusout(cm, i) == [cm EXCEPT ![i + 1].focusout = FALSE]

\* The focusout handler applyColumnHeaderCellMenu binds to the header. The
\* handlers bound to one header all do the same, so focusout records whether
\* any is bound.
FocusOut ==
    \E i \in ColIdx(columns) :
        /\ colMenus[i + 1].focusout
        /\ ColumnMenuCall("focusout", TRUE, Some(i),
              offFocusout(removeColumnHeaderCellMenu(TRUE, columns, colMenus, Some(i)), i))

OpenDataCellContextMenu ==
    /\ \E a \in TableIndexArgs(Len(columns)), iRowIndex \in IndexArgs(visibleRowCount) :
        /\ noSuchColumn(a[1], columns, a[2]) => iRowIndex = Some(0)
        /\ cellMenu' = openDataCellContextMenu(a[1], columns, colMenus, cellMenu,
                           enableCellFilter, rowCount, visibleRowCount, firstVisibleRow,
                           groupRows, a[2], iRowIndex)
        /\ last' = [op |-> "openDataCellContextMenu",
                    call |-> [table |-> a[1], iColumnIndex |-> a[2],
                              iRowIndex |-> iRowIndex],
                    pre |-> MenuState]
    /\ fired' = <<>>
    /\ UNCHANGED <<ctlVars, colVars, selVars, rowVars, rhVars, desktop, enableCellFilter, groupRows,
                   colMenus>>

CloseDataCellContextMenu ==
    /\ \E bTable \in BOOLEAN :
        /\ cellMenu' = closeDataCellContextMenu(bTable, cellMenu)
        /\ last' = [op |-> "closeDataCellContextMenu", call |-> [table |-> bTable],
                    pre |-> MenuState]
    /\ fired' = <<>>
    /\ UNCHANGED <<ctlVars, colVars, selVars, rowVars, rhVars, desktop, enableCellFilter, groupRows,
                   colMenus>>

NextMenu ==
    \/ OpenContextMenu
    \/ OpenColumnContextMenu
    \/ CloseColumnContextMenu
    \/ OpenDataCellContextMenu
    \/ CloseDataCellContextMenu
    \/ ApplyColumnHeaderCellMenu
    \/ RemoveColumnHeaderCellMenu
    \/ FocusOut

SpecMenu == InitMenu /\ [][NextMenu]_vars

\* ---------------------------------------------------- context menus: the claims

\* The calls of openContextMenu, the closing of the menus it opened and the
\* loss of focus of a header with an overlay.
NextContextMenuClose == OpenContextMenu \/ CloseColumnContextMenu \/ CloseDataCellContextMenu \/ FocusOut

SpecContextMenuClose == InitMenu /\ [][NextContextMenuClose]_vars

\* The last call was an openContextMenu whose notification was cancelled.
CancelledOpen ==
    /\ last.op = "openContextMenu"
    /\ fired # <<>>
    /\ fired[1].prevented

OpenFlags(cm) == [k \in 1 .. Len(cm) |-> cm[k].open]

Overlay(m) == [overlay |-> m.overlay, dropDown |-> m.dropDown, resizer |-> m.resizer,
               cellHidden |-> m.cellHidden]

\* C8: when the column-select or cell-context notification fired by
\* openContextMenu is cancelled, the menu state is as before the call: no
\* column menu and no data-cell menu was opened or closed, and no header
\* overlay was installed or removed.
C8_CancelLeavesMenuState ==
    CancelledOpen => (colMenus = last.pre.colMenus /\ cellMenu = last.pre.cellMenu)

\* C8 as the code has it: a cancelled notification opens and closes no column
\* menu and no data-cell menu and installs no overlay, and the overlays of the
\* other columns stay; an overlay on the target header is removed.
C8_CancelKeepsMenusRemovesOverlay ==
    CancelledOpen =>
        /\ OpenFlags(colMenus) = OpenFlags(last.pre.colMenus)
        /\ cellMenu = last.pre.cellMenu
        /\ \A k \in 1 .. Len(colMenus) :
            IF last.call.oElement.type = "COLUMNHEADER" /\ k = last.call.oElement.col + 1
            THEN ~colMenus[k].overlay /\ ~colMenus[k].cellHidden
            ELSE Overlay(colMenus[k]) = Overlay(last.pre.colMenus[k])

C8_Witness ==
    /\ CancelledOpen
    /\ last.call.oElement.type = "COLUMNHEADER"
    /\ ~desktop
    /\ last.pre.colMenus[last.call.oElement.col + 1].overlay
    /\ ~colMenus[last.call.oElement.col + 1].overlay
    /\ \E k \in 1 .. Len(colMenus) : colMenus[k].open


\* ------------------------------------------------- column menus: the claims

\* The calls of openColumnContextMenu and closeColumnContextMenu alone.
NextColumnMenu == OpenColumnContextMenu \/ CloseColumnContextMenu

SpecColumnMenu == InitMenu /\ [][NextColumnMenu]_vars

\* The columns whose menu is open.
OpenColumns(cm) == {k \in 1 .. Len(cm) : cm[k].open}

\* The last call named an existing visible column.
LastColumnValid ==
    /\ ~noSuchColumn(last.call.table, columns, last.call.iColumnIndex)
    /\ columns[Val(last.call.iColumnIndex) + 1].visible

\* C11: after any sequence of openColumnContextMenu and closeColumnContextMenu
\* calls at most one column's menu is open, and immediately after
\* openColumnContextMenu(table, i) for an existing visible column i the menu of
\* column i is open and the menu of every other column is closed.
C11_OneColumnMenuOpen ==
    /\ Cardinality(OpenColumns(colMenus)) <= 1
    /\ (last.op = "openColumnContextMenu" /\ LastColumnValid) =>
          OpenColumns(colMenus) = {Val(last.call.iColumnIndex) + 1}

C11_Witness ==
    /\ last.op = "openColumnContextMenu"
    /\ LastColumnValid
    /\ OpenColumns(last.pre.colMenus) # {}
    /\ Val(last.call.iColumnIndex) + 1 \notin OpenColumns(last.pre.colMenus)
    /\ OpenColumns(colMenus) = {Val(last.call.iColumnIndex) + 1}


\* ---------------------------------------------- data cell menu: the claims

\* A table with menus that renders MaxCellMenuVisible rows, scrolled or not,
\* one of them possibly a group header row.
InitCellMenu ==
    /\ IdleControl
    /\ \E ks \in MenuTables :
        /\ columns = [i \in 1 .. MaxMenuCols |->
                        [visible |-> ks[i].visible, resizable |-> ks[i].resizable,
                         flex |-> FALSE, px |-> 100, minWidth |-> 0]]
        /\ colMenus = [i \in 1 .. MaxMenuCols |->
                        [NoMenu EXCEPT !.hasItems = ks[i].hasItems,
                                       !.filterable = ks[i].filterable]]
    /\ fixedColumnCount = 0
    /\ rendered = TRUE
    /\ IdleSelection
    /\ IdleHandlers
    /\ visibleRowCount = MaxCellMenuVisible
    /\ rowCount \in 0 .. (MaxCellMenuVisible + 1)
    /\ firstVisibleRow \in 0 .. Max(0, rowCount - visibleRowCount)
    /\ fixedRowCount = 0
    /\ fixedBottomRowCount = 0
    /\ groupRows \in {{}} \cup {{r} : r \in 0 .. (Min(rowCount, visibleRowCount) - 1)}
    /\ desktop = TRUE
    /\ enableCellFilter \in BOOLEAN
    /\ cellMenu = NoCellMenu
    /\ fired = <<>>
    /\ last = NoCall

\* The calls of openDataCellContextMenu and closeDataCellContextMenu alone.
NextCellMenu == OpenDataCellContextMenu \/ CloseDataCellContextMenu

SpecCellMenu == InitCellMenu /\ [][NextCellMenu]_vars

\* The last call was openDataCellContextMenu for a cell a menu can open at: an
\* existing visible filterable column and a non-empty row that is no group
\* header, with cell filtering enabled.
LastCellOpenable ==
    /\ last.op = "openDataCellContextMenu"
    /\ enableCellFilter
    /\ ~noSuchColumn(last.call.table, columns, last.call.iColumnIndex)
    /\ columns[Val(last.call.iColumnIndex) + 1].visible
    /\ colMenus[Val(last.call.iColumnIndex) + 1].filterable
    /\ ~IsNull(last.call.iRowIndex)
    /\ Val(last.call.iRowIndex) \in 0 .. (getNonEmptyVisibleRowCount(visibleRowCount, rowCount) - 1)
    /\ Val(last.call.iRowIndex) \notin groupRows

\* The cell <<row, column>> the last call named.
LastCell == <<Val(last.call.iRowIndex), Val(last.call.iColumnIndex)>>

\* C12: after any sequence of openDataCellContextMenu and
\* closeDataCellContextMenu calls at most one data-cell menu instance was ever
\* created, it is open over at most one cell, and a request for another cell
\* than the one it is open over leaves it open at the new cell.
C12_OneCellMenu ==
    /\ cellMenu.created <= 1
    /\ cellMenu.exists <=> cellMenu.created = 1
    /\ cellMenu.bOpen => (cellMenu.exists /\ ~IsNull(cellMenu.opener))
    /\ LastCellOpenable => (cellMenu.bOpen /\ cellMenu.opener = Some(LastCell))

C12_Witness ==
    /\ LastCellOpenable
    /\ last.pre.cellMenu.bOpen
    /\ last.pre.cellMenu.opener # Some(LastCell)
    /\ cellMenu.opener = Some(LastCell)
    /\ cellMenu.created = 1


\* The last call was a page-wise scroll down.
PageDown == last.op = "scroll" /\ last.bDown /\ last.bPage

\* The table of the example: 10 rows, 5 of them visible, no fixed rows.
TenRowsFiveVisible ==
    rowCount = 10 /\ visibleRowCount = 5 /\ fixedRowCount = 0 /\ fixedBottomRowCount = 0

\* C13: a page-wise scroll down that scrolls moves the cursor forward by the
\* scrollable row count, clamped to totalRows - visibleRowCount; with 10 rows,
\* 5 visible and no fixed rows, page-down from 0 sets the cursor to 5 and
\* returns true, and page-down from 5 returns false and leaves the cursor at 5.
C13_PageDown ==
    /\ (PageDown /\ last.ret) =>
          firstVisibleRow =
              Min(last.pre + (visibleRowCount - fixedRowCount - fixedBottomRowCount),
                  rowCount - visibleRowCount)
    /\ (PageDown /\ TenRowsFiveVisible /\ last.pre = 0) => (firstVisibleRow = 5 /\ last.ret)
    /\ (PageDown /\ TenRowsFiveVisible /\ last.pre = 5) => (firstVisibleRow = 5 /\ ~last.ret)

C13_Witness ==
    /\ PageDown
    /\ TenRowsFiveVisible
    /\ last.pre = 5
    /\ last.prev = <<"scroll", TRUE>>
    /\ firstVisibleRow = 5
    /\ ~last.ret

\* C14: scroll returns true if and only if the cursor after the call differs
\* from the cursor before the call, for every direction, step or page, and
\* every combination of visible and fixed row counts.
C14_ReturnsWhetherMoved ==
    last.op = "scroll" => (last.ret <=> firstVisibleRow # last.pre)


\* The last call was toggleRowSelection(table, i, s) on a bound table with
\* selection enabled, for a valid absolute row index i.
ValidToggle ==
    /\ ToggleDone
    /\ last.call.table
    /\ hasBinding
    /\ selectionMode # "None"
    /\ last.call.oRowIndicator.kind = "number"
    /\ last.call.oRowIndicator.v \in 0 .. (rowCount - 1)

WasSelected == last.call.oRowIndicator.v \in last.pre
IsSelected == last.call.oRowIndicator.v \in selectedIndices

\* C15: toggleRowSelection(table, i, s) deselects a selected row unless s is
\* true and selects an unselected row unless s is false; afterwards row i is
\* selected when s is true and unselected when s is false; the call returns
\* true if and only if the selected state of row i changed.
C15_ToggleSetsState ==
    ValidToggle =>
        /\ (WasSelected /\ last.call.bSelect # Some(TRUE)) => ~IsSelected
        /\ (~WasSelected /\ last.call.bSelect # Some(FALSE)) => IsSelected
        /\ last.call.bSelect = Some(TRUE) => IsSelected
        /\ last.call.bSelect = Some(FALSE) => ~IsSelected
        /\ last.ret <=> (WasSelected # IsSelected)

C15_Witness ==
    /\ ValidToggle
    /\ selectionMode = "Single"
    /\ IsNull(last.call.bSelect)
    /\ ~WasSelected
    /\ last.pre # {}
    /\ IsSelected
    /\ last.ret

\* The last call was a toggleRowSelection that has nothing to toggle: no table,
\* no rows binding, no indicator, an index outside the rows, or a DOM element
\* that is no cell of a selectable row.
ToggleRefused ==
    /\ ToggleDone
    /\ LET ind == last.call.oRowIndicator IN
       \/ ~last.call.table
       \/ ~hasBinding
       \/ ind.kind = "null"
       \/ ind.kind = "number" /\ (ind.v < 0 \/ ind.v >= rowCount)
       \/ /\ ind.kind = "dom"
          /\ \/ ind.type \notin {"DATACELL", "ROWHEADER"}
             \/ ind.grouping
             \/ ind.type = "DATACELL"
                   /\ ~isRowSelectionAllowed(selectionMode, selectionBehavior)
             \/ ind.type = "ROWHEADER"
                   /\ ~isRowSelectorSelectionAllowed(selectionMode, selectionBehavior,
                                                     groupMode)

\* C16: toggleRowSelection returns false and leaves the selected indices as
\* they were when the table is null, no rows binding exists, the indicator is
\* null, a numeric index is outside the rows, or a DOM indicator is no cell of a
\* selectable row.
C16_RefusedToggleChangesNothing ==
    ToggleRefused => (last.ret = FALSE /\ selectedIndices = last.pre)

C16_Witness ==
    /\ ToggleRefused
    /\ last.call.table
    /\ hasBinding
    /\ selectionMode = "MultiToggle"
    /\ last.call.oRowIndicator.kind = "dom"
    /\ last.call.oRowIndicator.type = "ROWHEADER"
    /\ ~last.call.oRowIndicator.grouping
    /\ selectionBehavior = "RowOnly"
    /\ last.call.bSelect = Some(TRUE)
    /\ last.pre = {}
    /\ rowCount > 0


\* ------------------------------------------------ opening menus: the claims

\* The calls of the three functions that open a menu.
NextOpenMenu == OpenContextMenu \/ OpenColumnContextMenu \/ OpenDataCellContextMenu

SpecOpenMenu == InitMenu /\ [][NextOpenMenu]_vars

\* The column index of the last call is negative, out of range or names an
\* invisible column.
LastColumnMissing ==
    \/ IsNull(last.call.iColumnIndex)
    \/ Val(last.call.iColumnIndex) \notin ColIdx(columns)
    \/ ~columns[Val(last.call.iColumnIndex) + 1].visible

\* A row index that is negative or not below the non-empty visible row count.
RowMissing(iRowIndex) ==
    iRowIndex \notin 0 .. (Min(visibleRowCount, rowCount) - 1)

\* The last call asked for a menu with a missing table or element, an
\* element outside the table cells, or a missing column or row.
RefusedOpen ==
    \/ /\ last.op = "openContextMenu"
       /\ \/ ~last.call.table
          \/ last.call.oElement.kind = "null"
          \/ last.call.oElement.type = "NONE"
          \/ last.call.oElement.type = "DATACELL" /\ RowMissing(last.call.oElement.row)
    \/ /\ last.op = "openColumnContextMenu"
       /\ (~last.call.table \/ LastColumnMissing)
    \/ /\ last.op = "openDataCellContextMenu"
       /\ \/ ~last.call.table
          \/ LastColumnMissing
          \/ IsNull(last.call.iRowIndex)
          \/ RowMissing(Val(last.call.iRowIndex))

\* C17: openContextMenu, openColumnContextMenu and openDataCellContextMenu
\* open no menu when the table or the target element is missing, the target is
\* in no table cell, the column index is negative, out of range or names an
\* invisible column, or the row index is negative or not below the non-empty
\* visible row count: the column menus and the data cell menu stay as they were.
C17_RefusedOpenOpensNothing ==
    RefusedOpen =>
        /\ OpenColumns(colMenus) = OpenColumns(last.pre.colMenus)
        /\ cellMenu = last.pre.cellMenu

C17_Witness ==
    /\ RefusedOpen
    /\ last.op = "openDataCellContextMenu"
    /\ last.call.table
    /\ ~LastColumnMissing
    /\ enableCellFilter
    /\ colMenus[Val(last.call.iColumnIndex) + 1].filterable
    /\ last.call.iRowIndex = Some(0)
    /\ rowCount = 0
    /\ ~cellMenu.bOpen


\* ---------------------------------------- menus of column headers: the claims

\* The calls of openContextMenu alone.
NextContextMenu == OpenContextMenu

SpecContextMenu == InitMenu /\ [][NextContextMenu]_vars

\* The last call was openContextMenu(table, header) for the header of a column.
HeaderCall ==
    /\ last.op = "openContextMenu"
    /\ last.call.table
    /\ last.call.oElement.type = "COLUMNHEADER"

\* The target column of the last call, its header before and after the call.
HeaderCol == last.call.oElement.col + 1
HeaderBefore == last.pre.colMenus[HeaderCol]
HeaderAfter == colMenus[HeaderCol]

FireEnabled == IsNull(last.call.bFireEvent) \/ Val(last.call.bFireEvent)

\* The second call on a touch device, and every call on a desktop device: the
\* overlay is gone, the notification is fired when firing is enabled, and the
\* column's menu is open unless the notification was cancelled.
HeaderMenuOpened ==
    /\ ~HeaderAfter.overlay
    /\ IF FireEnabled
       THEN Len(fired) = 1 /\ fired[1].event = "ColumnSelect"
       ELSE fired = <<>>
    /\ IF FireEnabled /\ last.call.prevent
       THEN OpenFlags(colMenus) = OpenFlags(last.pre.colMenus)
       ELSE OpenColumns(colMenus) = {HeaderCol}

\* The later calls of C18: with the overlay's menu button on a touch device
\* the menu is opened; on a desktop device the menu is opened and no header
\* has an overlay.
C18_LaterCalls ==
    /\ (HeaderCall /\ ~desktop /\ HeaderBefore.overlay /\ HeaderBefore.dropDown)
          => HeaderMenuOpened
    /\ (HeaderCall /\ desktop) => HeaderMenuOpened
    /\ desktop => \A k \in 1 .. Len(colMenus) : ~colMenus[k].overlay

\* The first call on a touch device: no notification, no column menu opened.
FirstCallQuiet ==
    /\ fired = <<>>
    /\ OpenFlags(colMenus) = OpenFlags(last.pre.colMenus)

FirstCall == HeaderCall /\ ~desktop /\ ~(HeaderBefore.overlay /\ HeaderBefore.dropDown)

Computed ==
    resizeColumn(last.pre, rendered, fixedColumnCount, last.call.table,
                 last.call.iColumnIndex, last.call.iWidth, Some(FALSE),
                 last.call.iColumnSpan, {}).cols
ComputedWidth(cols, c) == getColumnWidth(cols, rendered, c)

\* The resizable columns of the span whose computed width is not their width.
ChangedColumns(cols) ==
    SelectSeq(LastResizable, LAMBDA c : ComputedWidth(cols, c) # WidthBefore(c))

\* The calls of resizeColumn on a table without fixed columns.
InitResizeUnfixed == InitResize /\ fixedColumnCount = 0

SpecResizeNotify == InitResizeUnfixed /\ [][NextResize]_vars

\* A width of a column was set by the last call.
SomeWidthSet ==
    \E k \in 1 .. Len(columns) :
        columns[k].px # last.pre[k].px \/ columns[k].flex # last.pre[k].flex

\* The example of C19: one resizable column of 100px, span 1, target 150px.
OneByHundred ==
    /\ ResizeRan
    /\ LastFireEvent /\ NonePrevented
    /\ LastTarget = 150
    /\ LastSpan = 1
    /\ LastResizable = <<Val(last.call.iColumnIndex)>>
    /\ WidthBefore(LastResizable[1]) = 100

\* C19: with event firing enabled resizeColumn fires exactly one resize
\* notification for each column whose computed width differs from its width,
\* with that column and the new width, and none for the other columns; it
\* returns true exactly when the width of a column was set.  One resizable
\* 100px column with span 1 and target 150px becomes 150px wide with exactly
\* one notification of width 150.
C19_OneNotificationPerChange ==
    /\ (ResizeRan /\ LastFireEvent) =>
          LET cols == Computed
              aChanged == ChangedColumns(cols)
          IN /\ Len(fired) = Len(aChanged)
             /\ \A k \in 1 .. Len(fired) :
                   /\ fired[k].event = "ColumnResize"
                   /\ fired[k].column = aChanged[k]
                   /\ fired[k].width = ComputedWidth(cols, aChanged[k])
                   /\ ~fired[k].prevented => WidthAfter(fired[k].column) = fired[k].width
    /\ ResizeDone => (last.ret <=> SomeWidthSet)
    /\ OneByHundred =>
          /\ WidthAfter(LastResizable[1]) = 150
          /\ Len(fired) = 1
          /\ fired[1].width = 150

\* Two resizable columns in the span, one notified and one not.
C19_Witness ==
    /\ ResizeRan /\ LastFireEvent
    /\ Len(LastResizable) = 2
    /\ Len(fired) = 1
    /\ last.ret

\* The last call is refused: an argument is missing or out of range, the start
\* column is invisible, or the span has no resizable column.
ResizeRefused ==
    /\ ResizeDone
    /\ \/ ~last.call.table
       \/ IsNull(last.call.iColumnIndex)
       \/ Val(last.call.iColumnIndex) < 0
       \/ Val(last.call.iColumnIndex) >= Len(last.pre)
       \/ IsNull(last.call.iWidth)
       \/ Val(last.call.iWidth) <= 0
       \/ ~last.pre[Val(last.call.iColumnIndex) + 1].visible
       \/ LastResizable = <<>>

\* C20: a refused resizeColumn returns false, changes no column width and no
\* minimum-width override and fires no notification.
C20_RefusedResizeChangesNothing ==
    ResizeRefused =>
        /\ last.ret = FALSE
        /\ columns = last.pre
        /\ fired = <<>>

\* A refused call on a rendered table with a flexible column outside the fixed
\* area, whose minimum width a resize would pin.
C20_Witness ==
    /\ ResizeRefused
    /\ last.call.table
    /\ ~IsNull(last.call.iColumnIndex)
    /\ Val(last.call.iColumnIndex) \in ColIdx(last.pre)
    /\ Val(last.call.iColumnIndex) >= fixedColumnCount
    /\ ~IsNull(last.call.iWidth) /\ Val(last.call.iWidth) > 0
    /\ last.pre[Val(last.call.iColumnIndex) + 1].visible
    /\ rendered
    /\ \E k \in 1 .. Len(last.pre) : last.pre[k].visible /\ last.pre[k].flex


\* ------------------------------------------------ the two menus: the claims

\* The calls that open and close the column menus and the data cell menu.
NextMenuSlots == OpenColumnContextMenu \/ CloseColumnContextMenu \/ OpenDataCellContextMenu \/ CloseDataCellContextMenu

SpecMenuSlots == InitCellMenu /\ [][NextMenuSlots]_vars

\* The last call was closeColumnContextMenu for a column whose menu was not
\* open, or for no column of the table.
ClosedColumnClosed ==
    /\ last.op = "closeColumnContextMenu"
    /\ \/ noSuchColumn(last.call.table, columns, last.call.iColumnIndex)
       \/ ~last.pre.colMenus[Val(last.call.iColumnIndex) + 1].open

\* The last call was closeDataCellContextMenu with no open data cell menu.
ClosedCellMenuClosed ==
    /\ last.op = "closeDataCellContextMenu"
    /\ ~(last.pre.cellMenu.exists /\ last.pre.cellMenu.bOpen)

\* C21: closeColumnContextMenu and closeDataCellContextMenu called when the
\* menu is not open, or when no data cell menu exists, change no menu state, and
\* the same call repeated after either of them changes nothing any more.
C21_CloseIsIdempotent ==
    /\ ClosedColumnClosed => MenuState = last.pre
    /\ ClosedCellMenuClosed => MenuState = last.pre
    /\ last.op = "closeColumnContextMenu" =>
          closeColumnContextMenu(last.call.table, columns, colMenus,
                                 last.call.iColumnIndex) = colMenus
    /\ last.op = "closeDataCellContextMenu" =>
          closeDataCellContextMenu(last.call.table, cellMenu) = cellMenu

\* closeColumnContextMenu on a column with a closed menu while the menu of
\* another column and the data cell menu are open.
C21_Witness ==
    /\ ClosedColumnClosed
    /\ ~noSuchColumn(last.call.table, columns, last.call.iColumnIndex)
    /\ OpenColumns(colMenus) # {}
    /\ cellMenu.bOpen


\* ------------------------------------ resize handlers: wrongly typed arguments

\* The last call had a wrongly typed argument: an ID suffix that is no string,
\* a handler that is no function, or a de-registration key that is no string,
\* no array and not undefined.
WronglyTyped ==
    \/ /\ last.op = "registerResizeHandler"
       /\ (last.call.sIdSuffix.type # "string" \/ ~last.call.fnHandler)
    \/ /\ last.op = "deregisterResizeHandler"
       /\ last.call.type = "other"

\* C22: a registerResizeHandler or deregisterResizeHandler call with a wrongly
\* typed argument raises no exception, writes a log entry, returns undefined and
\* leaves the map of handler IDs and the live handles as they were.
C22_WrongTypeIsLoggedOnly ==
    WronglyTyped =>
        /\ ~last.threw
        /\ last.logged
        /\ IsNull(last.ret)
        /\ mResizeHandlerIds = last.pre.map
        /\ liveHandles = last.pre.live


\* ------------------------------------------------ resizeColumn: the span

\* The visible columns at or after the start index of the last call, in order.
VisibleFromStart ==
    SelectSeq(getVisibleColumns(last.pre), LAMBDA i : i >= Val(last.call.iColumnIndex))

\* The first LastSpan of them, or all of them when fewer remain.
FirstVisibleFromStart ==
    SubSeq(VisibleFromStart, 1, Min(LastSpan, Len(VisibleFromStart)))

\* The resizable columns among them.
ResizableOf(aColumns) == SelectSeq(aColumns, LAMBDA i : last.pre[i + 1].resizable)

\* C23: the span of resizeColumn is the first span visible columns at or after
\* the start index, in column order; invisible columns are skipped and not
\* counted, and all remaining visible columns are taken when fewer than span
\* remain.  The width delta is the target minus the widths of these columns,
\* and only these columns change their width.
C23_SpanOfVisibleColumns ==
    ResizeRan =>
        /\ LastVisible = FirstVisibleFromStart
        /\ \A i \in ColIdx(columns) :
              WidthAfter(i) # WidthBefore(i) => InSeq(i, FirstVisibleFromStart)
        /\ (NonePrevented /\ NoneClamped) =>
              \A k \in 1 .. Len(ResizableOf(FirstVisibleFromStart)) :
                 LET c == ResizableOf(FirstVisibleFromStart)[k] IN
                 WidthAfter(c) = WidthBefore(c)
                    + RoundDiv(LastTarget - spanWidth(last.pre, rendered, FirstVisibleFromStart),
                               Len(ResizableOf(FirstVisibleFromStart)))

\* A span of two with an invisible column between the two visible columns, the
\* second of them resized.
C23_Witness ==
    /\ ResizeRan
    /\ LastSpan = 2
    /\ Len(FirstVisibleFromStart) = 2
    /\ FirstVisibleFromStart[2] > FirstVisibleFromStart[1] + 1
    /\ WidthAfter(FirstVisibleFromStart[2]) # WidthBefore(FirstVisibleFromStart[2])


\* ------------------------------------------- resizeColumn: the other columns

\* The width property of column i (0-based) is as before the last call.
WidthKept(i) ==
    /\ columns[i + 1].px = last.pre[i + 1].px
    /\ columns[i + 1].flex = last.pre[i + 1].flex

\* C27: resizeColumn changes the width only of columns that are visible,
\* resizable and inside the span; every column outside the span, every
\* invisible column and every non-resizable column keeps its width.
C27_OtherColumnsKeepWidth ==
    /\ (ResizeDone /\ ~ResizeRan) => \A i \in ColIdx(columns) : WidthKept(i)
    /\ ResizeRan =>
          \A i \in ColIdx(columns) :
             \/ WidthKept(i)
             \/ /\ InSeq(i, FirstVisibleFromStart)
                /\ last.pre[i + 1].visible
                /\ last.pre[i + 1].resizable

\* A call that resizes a column of a span holding a non-resizable column as
\* well, on a table with a column outside the span.
C27_Witness ==
    /\ ResizeRan
    /\ \E i \in ColIdx(columns) : ~WidthKept(i)
    /\ \E i \in ColIdx(columns) : InSeq(i, FirstVisibleFromStart) /\ ~last.pre[i + 1].resizable
    /\ \E i \in ColIdx(columns) : ~InSeq(i, FirstVisibleFromStart) /\ last.pre[i + 1].visible


\* ------------------------------------------ resizeColumn: the minimum widths

\* Rendered widths of the flexible columns, one below the minimum column width.
RenderedWidths == {30, 100}

\* The columns of a table with flexible columns: an invisible flexible column,
\* a visible resizable column of 100px, a visible resizable flexible column
\* and visible flexible columns that are not resizable.
FlexColumnKinds ==
    {[visible |-> FALSE, resizable |-> TRUE, flex |-> TRUE, px |-> 100, minWidth |-> 0]}
    \cup {[visible |-> TRUE, resizable |-> TRUE, flex |-> f, px |-> 100, minWidth |-> 0] : f \in BOOLEAN}
    \cup [visible : {TRUE}, resizable : {FALSE}, flex : {TRUE}, px : RenderedWidths, minWidth : {0}]

InitResizeFlex ==
    /\ IdleControl
    /\ \E n \in 1 .. MaxCols : columns \in [1 .. n -> FlexColumnKinds]
    /\ fixedColumnCount \in 0 .. 1
    /\ rendered \in BOOLEAN
    /\ IdleSelection
    /\ IdleRows
    /\ IdleHandlers
    /\ IdleMenus
    /\ fired = <<>>
    /\ last = NoCall

SpecResizeFlex == InitResizeFlex /\ [][NextResize]_vars

\* Column i (0-based) is one whose minimum width the last call pins: the start
\* column is not fixed, and the column is visible, rendered, of flexible width
\* and not one of the columns being resized.
ToBePinned(i) ==
    /\ Val(last.call.iColumnIndex) >= fixedColumnCount
    /\ last.pre[i + 1].visible
    /\ rendered
    /\ last.pre[i + 1].flex
    /\ ~InSeq(i, ResizableOf(FirstVisibleFromStart))

\* C28: a resizeColumn call that resizes pins the rendered width, or the
\* minimum column width if that is larger, as the minimum width of exactly the
\* columns that are visible, rendered, of flexible width and not being resized,
\* provided the start column is not fixed; with a fixed start column no
\* minimum width is changed.
C28_PinsFlexibleColumns ==
    ResizeRan =>
        /\ \A i \in ColIdx(columns) :
              IF ToBePinned(i)
              THEN columns[i + 1].minWidth = Max(last.pre[i + 1].px, MinColumnWidth)
              ELSE columns[i + 1].minWidth = last.pre[i + 1].minWidth
        /\ Val(last.call.iColumnIndex) < fixedColumnCount =>
              \A i \in ColIdx(columns) : columns[i + 1].minWidth = last.pre[i + 1].minWidth

\* A resize behind a fixed column pins a narrow and a wide flexible column.
C28_Witness ==
    /\ ResizeRan
    /\ fixedColumnCount = 1
    /\ \E i, j \in ColIdx(columns) :
          /\ ToBePinned(i) /\ last.pre[i + 1].px = 30 /\ columns[i + 1].minWidth = MinColumnWidth
          /\ ToBePinned(j) /\ columns[j + 1].minWidth = 100


\* ------------------------------------- the column of the column-select event

\* C24: the column of the ColumnSelect event openContextMenu fires for a
\* column header is the column whose menu openContextMenu then opens, also on
\* a table with invisible columns ahead of that column.
C24_EventColumnIsMenuColumn ==
    (HeaderCall /\ fired # <<>> /\ ~fired[1].prevented) =>
        /\ OpenColumns(colMenus) = {HeaderCol}
        /\ fired[1].column = Some(HeaderCol - 1)


\* ----------------------------------------- the target of the filter action

\* The column and row index the filter item is bound to when it is bound to
\* the cell <<row, column>> of the rendered table.
TargetOf(eCell) ==
    Some([column |-> eCell[2], rowIndex |-> getRowIndex(firstVisibleRow, eCell[1])])

\* C25: after any sequence of openDataCellContextMenu calls, whenever the data
\* cell menu is open its filter item is bound to the row and column of the cell
\* the menu is open over, and a call that does not open or relocate the menu
\* does not change what the filter item is bound to.
C25_FilterTargetIsOpenerCell ==
    /\ cellMenu.bOpen => cellMenu.target = TargetOf(Val(cellMenu.opener))
    /\ (/\ last.op = "openDataCellContextMenu"
        /\ cellMenu.bOpen = last.pre.cellMenu.bOpen
        /\ cellMenu.opener = last.pre.cellMenu.opener) =>
          cellMenu.target = last.pre.cellMenu.target


\* ------------------------------------------- the marker of user interaction

\* C26: the table's _iSourceRowIndex is not set once toggleRowSelection has
\* returned, whether the call changed the selection or returned false because
\* the forced state was in place already.
C26_SourceRowIndexCleared ==
    last.op = "toggleRowSelection" => IsNull(iSourceRowIndex)


\* --------------------------------------------------- scrollMax: the claims

\* C29: scrollMax(table, true) leaves the cursor at
\* totalRows - min(visibleRowCount, totalRows) and scrollMax(table, false)
\* leaves it at 0; each returns true exactly when the cursor changed.
C29_ScrollMaxTarget ==
    last.op = "scrollMax" =>
        /\ firstVisibleRow = IF last.bDown
                             THEN rowCount - Min(visibleRowCount, rowCount)
                             ELSE 0
        /\ last.ret <=> (firstVisibleRow # last.pre)

\* scrollMax to the end from the row before the last page.
C29_Witness ==
    /\ last.op = "scrollMax" /\ last.bDown /\ last.ret
    /\ last.pre + 1 = firstVisibleRow
    /\ firstVisibleRow = rowCount - visibleRowCount
    /\ last.prev = <<"scrollMax", FALSE>>


\* C30: openColumnContextMenu and closeColumnContextMenu leave the open state
\* and the opener cell of the data cell menu unchanged, and
\* openDataCellContextMenu and closeDataCellContextMenu leave the open state of
\* every column menu unchanged.
C30_MenusAreIndependent ==
    /\ last.op \in {"openColumnContextMenu", "closeColumnContextMenu"} =>
          /\ cellMenu.bOpen = last.pre.cellMenu.bOpen
          /\ cellMenu.opener = last.pre.cellMenu.opener
    /\ last.op \in {"openDataCellContextMenu", "closeDataCellContextMenu"} =>
          OpenFlags(colMenus) = OpenFlags(last.pre.colMenus)

\* The menu of another column is opened while the data cell menu is open.
C30_Witness ==
    /\ last.op = "openColumnContextMenu"
    /\ OpenColumns(last.pre.colMenus) # {}
    /\ OpenColumns(colMenus) # OpenColumns(last.pre.colMenus)
    /\ cellMenu.bOpen


\* ------------------------------------- registerResizeHandler: the result

\* The last call was a registerResizeHandler with a string and a function.
WellTypedRegister ==
    /\ last.op = "registerResizeHandler"
    /\ last.call.sIdSuffix.type = "string"
    /\ last.call.fnHandler

\* The key of the last registerResizeHandler call.
LastKey == last.call.sIdSuffix.keys[1]

\* The DOM element to observe was found: the element of the key, or its parent
\* node when the parent is asked for.
DomFound ==
    \/ last.call.domRef = "attached"
    \/ last.call.domRef = "detached" /\ ~last.call.bRegisterParent

\* C31: registerResizeHandler returns the handle that is stored and live for
\* the key after the call; when the DOM element is not found it returns
\* undefined, and the handle that was live for the key before the call is
\* de-registered and no longer stored.
C31_ReturnsStoredHandle ==
    WellTypedRegister =>
        /\ DomFound <=> ~IsNull(last.ret)
        /\ ~IsNull(last.ret) =>
              /\ mResizeHandlerIds[LastKey] = Val(last.ret)
              /\ Val(last.ret) \in liveHandles
              /\ LiveFor(LastKey) = {Val(last.ret)}
        /\ IsNull(last.ret) =>
              /\ mResizeHandlerIds[LastKey] = 0
              /\ LiveFor(LastKey) = {}
        /\ (~IsNull(last.pre.map) /\ last.pre.map[LastKey] # 0) =>
              /\ last.pre.map[LastKey] \notin liveHandles
              /\ mResizeHandlerIds[LastKey] # last.pre.map[LastKey]

\* A registration for the parent of an element without parent node, for a key
\* with a live handle.
C31_Witness ==
    /\ WellTypedRegister
    /\ last.call.domRef = "detached" /\ last.call.bRegisterParent
    /\ IsNull(last.ret)
    /\ ~IsNull(last.pre.map)
    /\ last.pre.map[LastKey] \in last.pre.live
    /\ liveHandles # {}


\* ------------------------------------------- header cell menus: the claims

\* The calls of applyColumnHeaderCellMenu and removeColumnHeaderCellMenu alone.
NextHeaderCellMenu == ApplyColumnHeaderCellMenu \/ RemoveColumnHeaderCellMenu

SpecHeaderCellMenu == InitMenu /\ [][NextHeaderCellMenu]_vars

\* The header of column i (0-based) after removeColumnHeaderCellMenu.
Removed(i) == removeColumnHeaderCellMenu(TRUE, columns, colMenus, Some(i))[i + 1]

\* What holds of the overlays after any applyColumnHeaderCellMenu and
\* removeColumnHeaderCellMenu calls: at most one overlay in a header, the cell
\* content hidden exactly while the overlay is there, overlays only on visible
\* columns that are resizable or have menu items.
OverlaysWellFormed ==
    \A k \in 1 .. Len(colMenus) :
        /\ colMenus[k].cellMenus <= 1
        /\ colMenus[k].overlay <=> colMenus[k].cellMenus = 1
        /\ colMenus[k].cellHidden <=> colMenus[k].overlay
        /\ colMenus[k].overlay =>
              (columns[k].visible /\ (columns[k].resizable \/ colMenus[k].hasItems))

\* C32: after any applyColumnHeaderCellMenu and removeColumnHeaderCellMenu
\* calls the overlays are well formed, and applyColumnHeaderCellMenu followed
\* by removeColumnHeaderCellMenu restores a header without an overlay to its
\* state before the apply.
C32_ApplyRemoveRestores ==
    /\ OverlaysWellFormed
    /\ (last.op = "applyColumnHeaderCellMenu"
          /\ ~noSuchColumn(last.call.table, columns, last.call.iColumnIndex)) =>
          LET i == Val(last.call.iColumnIndex) IN
          ~last.pre.colMenus[i + 1].overlay => Removed(i) = last.pre.colMenus[i + 1]


\* ------------------------------------------------- scrolling at the end

\* The last call is scroll() in the direction of the scrollMax() before it.
ScrollAfterScrollMax ==
    /\ last.op = "scroll"
    /\ last.prev = <<"scrollMax", last.bDown>>

\* C33: a scroll() that follows scrollMax() in the same direction, by a step or
\* by a page, returns false and leaves the cursor where it was, whatever the
\* row count and the visible row count.
C33_NoScrollBeyondMax ==
    ScrollAfterScrollMax => (~last.ret /\ firstVisibleRow = last.pre)

\* A page down after scrollMax down in a table with fewer rows than visible rows.
C33_Witness ==
    /\ ScrollAfterScrollMax
    /\ last.bDown
    /\ last.bPage
    /\ rowCount > 0
    /\ rowCount < visibleRowCount
    /\ ~last.ret


\* ------------------------------------------ the data cell menu's filter item

getContextByIndexFirst(bBinding, rows, iRowIndex) ==
    IF bBinding /\ rows > 0 THEN Some(0) ELSE Null

\* Table.getContextByIndex: the binding context of the row with the index,
\* undefined when the binding has no such row.
getContextByIndex(bBinding, rows, iRowIndex) ==
    IF bBinding /\ iRowIndex \in 0 .. (rows - 1) THEN Some(iRowIndex) ELSE Null

\* Column.getFilterProperty: the property the column filters by.
getFilterProperty(iColumnIndex) == <<"filterProperty", iColumnIndex>>

\* Context.getProperty: the value of the property in the row of the context.
getProperty(oRowContext, sProperty) == [row |-> oRowContext, property |-> sProperty]

\* oCellContextMenuItem._onSelect: what the table is asked to do, in order. A
\* missing row context makes the read of its property throw.
onSelect(bBinding, rows, bCustomFilter, oColumn, iRowIndex) ==
    LET oRowContext == getContextByIndex(bBinding, rows, iRowIndex) IN
    IF IsNull(oRowContext) THEN <<[event |-> "TypeError"]>>
    ELSE LET sFilterProperty == getFilterProperty(oColumn)
             sFilterValue == getProperty(Val(oRowContext), sFilterProperty)
         IN IF bCustomFilter
            THEN <<[event |-> "CustomFilter", column |-> oColumn, value |-> sFilterValue]>>
            ELSE <<[event |-> "filter", column |-> oColumn, value |-> sFilterValue]>>

\* The filter item of the open data cell menu is selected; the table has
\* custom filtering enabled or not.
SelectFilterItem ==
    /\ cellMenu.bOpen
    /\ ~IsNull(cellMenu.target)
    /\ \E bCustomFilter \in BOOLEAN :
        /\ fired' = onSelect(hasBinding, rowCount, bCustomFilter,
                             Val(cellMenu.target).column, Val(cellMenu.target).rowIndex)
        /\ last' = [op |-> "selectFilterItem",
                    call |-> [enableCustomFilter |-> bCustomFilter,
                              target |-> Val(cellMenu.target)],
                    pre |-> MenuState]
    /\ UNCHANGED <<ctlVars, colVars, selVars, rowVars, rhVars, menuVars>>

NextFilterItem == OpenDataCellContextMenu \/ CloseDataCellContextMenu \/ SelectFilterItem

SpecFilterItem == InitCellMenu /\ [][NextFilterItem]_vars

\* The value of the filter property of the column the filter item is bound to,
\* in the row it is bound to.
BoundValue(t) == [row |-> t.rowIndex, property |-> getFilterProperty(t.column)]

\* C34: selecting the filter item of the data cell menu reads the value of the
\* column's filter property in the row the item is bound to, and then fires
\* CustomFilter with the column and the value when custom filtering is enabled
\* and calls the table's filter with the column and the value when it is not;
\* it does one of the two and nothing else.
C34_FilterOrCustomFilter ==
    last.op = "selectFilterItem" =>
        LET t == last.call.target IN
        fired = <<[event |-> IF last.call.enableCustomFilter THEN "CustomFilter" ELSE "filter",
                   column |-> t.column, value |-> BoundValue(t)]>>

\* The filter item bound to a row other than the first is selected in a table
\* with custom filtering.
C34_Witness ==
    /\ last.op = "selectFilterItem"
    /\ last.call.enableCustomFilter
    /\ last.call.target.rowIndex > 0
    /\ Len(fired) = 1
    /\ fired[1].event = "CustomFilter"


\* ==================================================== the no-data display

MaxNoDataRows == 5

hasTotalUntotaled(oAnalytical) == oAnalytical.providesGrandTotal

\* bHasTotal: oBinding.providesGrandTotal() && oBinding.hasTotaledMeasures()
hasTotal(oAnalytical) == oAnalytical.providesGrandTotal /\ oAnalytical.hasTotaledMeasures

\* TableUtils.isNoDataVisible
isNoDataVisible(bShowNoData, bBinding, oAnalytical, iBindingLength) ==
    IF ~bShowNoData THEN FALSE
    ELSE LET bHasData == IF bBinding /\ ~IsNull(oAnalytical)
                         THEN LET bHasTotal == hasTotal(Val(oAnalytical)) IN
                              IF (bHasTotal /\ iBindingLength < 2)
                                 \/ (~bHasTotal /\ iBindingLength = 0)
                              THEN FALSE ELSE TRUE
                         ELSE IF bBinding THEN iBindingLength # 0 ELSE FALSE
         IN ~bHasData

\* The analytical bindings: what providesGrandTotal() and hasTotaledMeasures()
\* return.
AnalyticalBindings == [providesGrandTotal : BOOLEAN, hasTotaledMeasures : BOOLEAN]

\* A table without rows binding has no rows; only a binding can be analytical.
InitNoData ==
    /\ IdleColumns
    /\ IdleHandlers
    /\ IdleMenus
    /\ selectionMode = "None"
    /\ selectionBehavior = "RowSelector"
    /\ groupMode = FALSE
    /\ selectedIndices = {}
    /\ iSourceRowIndex = Null
    /\ hasBinding \in BOOLEAN
    /\ rowCount \in IF hasBinding THEN 0 .. MaxNoDataRows ELSE {0}
    /\ analytical \in IF hasBinding THEN {Null} \cup {Some(a) : a \in AnalyticalBindings}
                      ELSE {Null}
    /\ showNoData \in BOOLEAN
    /\ firstVisibleRow = 0
    /\ visibleRowCount = 1
    /\ fixedRowCount = 0
    /\ fixedBottomRowCount = 0
    /\ tableClasses = [style |-> {}, dom |-> {}]
    /\ parents = <<>>
    /\ bodyClasses = {}
    /\ fired = <<>>
    /\ last = NoCall

IsNoDataVisible ==
    /\ last' = [op |-> "isNoDataVisible",
                ret |-> isNoDataVisible(showNoData, hasBinding, analytical, rowCount)]
    /\ fired' = <<>>
    /\ UNCHANGED <<colVars, selVars, rowVars, rhVars, menuVars, ctlVars>>

NextNoData == IsNoDataVisible

SpecNoData == InitNoData /\ [][NextNoData]_vars

\* The rows binding is analytical and has a grand total row with totals.
TotaledGrandTotal ==
    /\ hasBinding
    /\ ~IsNull(analytical)
    /\ Val(analytical).providesGrandTotal
    /\ Val(analytical).hasTotaledMeasures

\* C36: isNoDataVisible returns false when the no-data display is switched
\* off; otherwise it returns true exactly when there is no rows binding, or the
\* binding has no rows, or the binding is analytical with a totaled grand total
\* and has fewer than two rows.
C36_NoDataVisible ==
    last.op = "isNoDataVisible" =>
        /\ ~showNoData => ~last.ret
        /\ showNoData =>
              (last.ret <=> (\/ ~hasBinding
                             \/ rowCount = 0
                             \/ (TotaledGrandTotal /\ rowCount < 2)))

\* The only row of an analytical binding is its totaled grand total.
C36_Witness ==
    /\ last.op = "isNoDataVisible"
    /\ showNoData
    /\ TotaledGrandTotal
    /\ rowCount = 1
    /\ last.ret


\* ======================================================= content density

MaxParents == 2

\* aContentDensityStyleClasses, in the order they are tested
aContentDensityStyleClasses == <<"sapUiSizeCompact", "sapUiSizeCondensed", "sapUiSizeCozy">>

\* The sets of density classes an object or a DOM element carries.
ClassSets ==
    {{}, {"sapUiSizeCozy"}, {"sapUiSizeCompact", "sapUiSizeCozy"},
     {"sapUiSizeCondensed", "sapUiSizeCozy"}}

\* The indices of the density classes the object carries.
carried(classes) == {i \in 1 .. Len(aContentDensityStyleClasses) : aContentDensityStyleClasses[i] \in classes}

firstCarriedLast(classes) == aContentDensityStyleClasses[CHOOSE i \in carried(classes) : \A j \in carried(classes) : j <= i]

\* fnGetContentDensity's loop: the first class of the list the object carries
firstCarried(classes) == aContentDensityStyleClasses[CHOOSE i \in carried(classes) : \A j \in carried(classes) : i <= j]

\* fnGetContentDensity(sFnName, oObject): undefined when the object has no
\* function of that name or carries none of the classes.
fnGetContentDensity(bHasFn, classes) ==
    IF ~bHasFn \/ carried(classes) = {} THEN Null ELSE Some(firstCarried(classes))

\* jQuery.closest over the element and its ancestors, the element first: the
\* classes of the nearest one that carries a density class, {} when none does.
RECURSIVE closest(_)
closest(aElements) ==
    IF aElements = <<>> THEN {}
    ELSE IF carried(Head(aElements)) # {} THEN Head(aElements)
    ELSE closest(Tail(aElements))

\* The DOM reference of a parent: getDomRef() of controls and elements,
\* getRootNode() of a UIArea, none for an object with neither.
parentDomRef(oParent) == IF oParent.domAccessor = "none" THEN Null ELSE oParent.domRef

\* The do-while loop over the parents, from parent k: [found, dom, stop], the
\* class found at control level, the DOM reference the loop ended with and the
\* parent it ended at.
RECURSIVE traverseParents(_, _)
traverseParents(aParents, k) ==
    LET oParent == aParents[k]
        sContentDensity == fnGetContentDensity(oParent.hasStyleClass, oParent.styleClasses)
        oParentDomRef == parentDomRef(oParent)
    IN IF ~IsNull(sContentDensity)
       THEN [found |-> sContentDensity, dom |-> Null, stop |-> k]
       ELSE IF IsNull(oParentDomRef) /\ oParent.hasGetParent /\ k < Len(aParents)
            THEN traverseParents(aParents, k + 1)
            ELSE [found |-> Null, dom |-> oParentDomRef, stop |-> k]

\* TableUtils.getContentDensity: [ret, stop], the class returned and the parent
\* the traversal ended at (0 when no parent was visited).
getContentDensity(bRendered, own, aParents, body) ==
    LET sOwn == IF bRendered THEN fnGetContentDensity(TRUE, own.dom)
                ELSE fnGetContentDensity(TRUE, own.style)
    IN
    IF ~IsNull(sOwn) THEN [ret |-> sOwn, stop |-> 0]
    ELSE LET t == IF aParents = <<>> THEN [found |-> Null, dom |-> Null, stop |-> 0]
                  ELSE traverseParents(aParents, 1)
         IN IF ~IsNull(t.found) THEN [ret |-> t.found, stop |-> t.stop]
            ELSE LET aElements == IF IsNull(t.dom) THEN <<body>> ELSE <<Val(t.dom), body>>
                 IN [ret |-> fnGetContentDensity(TRUE, closest(aElements)), stop |-> t.stop]

\* The parents of a table: controls that are not rendered, with style classes;
\* rendered controls without density style class, whose DOM element may carry
\* one; a UIArea with its root node; an element without hasStyleClass that is
\* not rendered; an object with none of the accessors.
ParentKinds ==
    {[hasStyleClass |-> TRUE, styleClasses |-> c, domAccessor |-> "getDomRef",
      domRef |-> Null, hasGetParent |-> TRUE] : c \in ClassSets}
    \cup {[hasStyleClass |-> TRUE, styleClasses |-> {}, domAccessor |-> "getDomRef",
           domRef |-> Some(c), hasGetParent |-> TRUE] : c \in {{}, {"sapUiSizeCozy"}}}
    \cup {[hasStyleClass |-> FALSE, styleClasses |-> {}, domAccessor |-> "getRootNode",
           domRef |-> Some(c), hasGetParent |-> TRUE] :
              c \in {{}, {"sapUiSizeCompact", "sapUiSizeCozy"}}}
    \cup {[hasStyleClass |-> FALSE, styleClasses |-> {}, domAccessor |-> "getDomRef",
           domRef |-> Null, hasGetParent |-> TRUE]}
    \cup {[hasStyleClass |-> FALSE, styleClasses |-> {}, domAccessor |-> "none",
           domRef |-> Null, hasGetParent |-> FALSE]}

\* The DOM element of a rendered table carries the table's style classes. The
\* chain of parents is what getParent() returns, so an object without getParent
\* is the last of it.
InitDensity ==
    /\ columns = <<>>
    /\ fixedColumnCount = 0
    /\ rendered \in BOOLEAN
    /\ IdleSelection
    /\ IdleHandlers
    /\ IdleRows
    /\ IdleMenus
    /\ showNoData = TRUE
    /\ analytical = Null
    /\ \E c \in ClassSets :
          tableClasses = [style |-> c, dom |-> IF rendered THEN c ELSE {}]
    /\ \E n \in 0 .. MaxParents :
          /\ parents \in [1 .. n -> ParentKinds]
          /\ \A k \in 1 .. (n - 1) : parents[k].hasGetParent
    /\ bodyClasses \in ClassSets
    /\ fired = <<>>
    /\ last = NoCall

GetContentDensity ==
    /\ last' = [op |-> "getContentDensity",
                ret |-> getContentDensity(rendered, tableClasses, parents, bodyClasses)]
    /\ fired' = <<>>
    /\ UNCHANGED <<colVars, selVars, rowVars, rhVars, menuVars, ctlVars>>

NextDensity == GetContentDensity

SpecDensity == InitDensity /\ [][NextDensity]_vars


\* The density classes the table itself is tested for.
OwnLevel == IF rendered THEN tableClasses.dom ELSE tableClasses.style

\* The density classes parent k can be asked for with hasStyleClass.
StyleLevel(k) == IF parents[k].hasStyleClass THEN parents[k].styleClasses ELSE {}

\* Parent k ends the walk: it carries a density style class, has a DOM
\* reference, or has no getParent.
EndsWalk(k) ==
    \/ carried(StyleLevel(k)) # {}
    \/ ~IsNull(parentDomRef(parents[k]))
    \/ ~parents[k].hasGetParent

\* The first parent that ends the walk, the last parent when none does, 0 for
\* a table without parent.
StopAt ==
    IF \E k \in 1 .. Len(parents) : EndsWalk(k)
    THEN CHOOSE k \in 1 .. Len(parents) : EndsWalk(k) /\ \A j \in 1 .. (k - 1) : ~EndsWalk(j)
    ELSE Len(parents)

\* The levels of the ancestry in the order they count: the table, its parents
\* up to the one that ends the walk, the DOM element of that parent if it has
\* one, and document.body.
Levels ==
    <<OwnLevel>> \o [k \in 1 .. StopAt |-> StyleLevel(k)]
       \o (IF StopAt > 0 /\ ~IsNull(parentDomRef(parents[StopAt]))
           THEN <<Val(parentDomRef(parents[StopAt]))>> ELSE <<>>)
       \o <<bodyClasses>>

\* compact before condensed before cozy
HighestPriority(classes) ==
    IF "sapUiSizeCompact" \in classes THEN "sapUiSizeCompact"
    ELSE IF "sapUiSizeCondensed" \in classes THEN "sapUiSizeCondensed"
    ELSE "sapUiSizeCozy"

\* The class of highest priority at the first level that carries a density
\* class, Null when no level carries one.
DensityOfLevels ==
    LET with == {j \in 1 .. Len(Levels) : carried(Levels[j]) # {}} IN
    IF with = {} THEN Null
    ELSE Some(HighestPriority(Levels[CHOOSE j \in with : \A i \in with : j <= i]))

\* C35: getContentDensity returns the class of highest priority (compact, then
\* condensed, then cozy) of the first level of the ancestry that carries a
\* density class and undefined when no level carries one; the walk over the
\* parents ends at the first parent with a density style class or a DOM
\* reference, and ends for a parent without getParent.
C35_DensityOfFirstLevel ==
    last.op = "getContentDensity" =>
        /\ last.ret.ret = DensityOfLevels
        /\ last.ret.stop = (IF carried(OwnLevel) = {} THEN StopAt ELSE 0)

\* The class comes from the second parent, which carries two density classes;
\* the table and its first parent carry none and have no DOM element.
C35_Witness ==
    /\ last.op = "getContentDensity"
    /\ ~rendered
    /\ Len(parents) = 2
    /\ last.ret.stop = 2
    /\ parents[2].styleClasses = {"sapUiSizeCondensed", "sapUiSizeCozy"}
    /\ last.ret.ret = Some("sapUiSizeCondensed")

=============================================================================
